---- MODULE Spec2Model ----
(***************************************************************************)
(* A model of bookmarkos-tools: the pseudo-HTML bookmark parser            *)
(* (bin/bookmarkos/parser.py, bin/bookmarkos/data/bookmarks.py), the JSON  *)
(* encoder/decoder (bin/bookmarkos/json_io.py) and the rank aggregator of  *)
(* the metrics engine (bin/bookmarkos/metrics.py).                         *)
(*                                                                         *)
(* Strings are sequences of one-character strings, so that splitting,      *)
(* integer parsing and comparison are computed and not assumed.  A Python  *)
(* object is a record holding its class and the entries of its __dict__.   *)
(* An optional value is a sequence of length 0 (None) or 1.                *)
(***************************************************************************)
EXTENDS Integers, Sequences, FiniteSets, TLC

VARIABLES
    pc,         \* where the parse_bookmarks call stands
    data,       \* content.split("\n"): the lines given to parse_bookmarks
    queue,      \* line_queue, the deque shared by all process_folder frames
    stack,      \* the open process_folder frames, innermost last
    result,     \* what parse_bookmarks returned (None until it returns)
    error,      \* the exception that ended the call (None if none)
    json,       \* the document written by write_json_data (None until written)
    decoded,    \* what read_bookmarks_json returned or raised
    first,      \* the outcome of the first of two parse_bookmarks calls
    fragment,   \* the markup given to Bookmark.fill
    filled,     \* what Bookmark.fill returned or raised
    sizes,      \* the histogram given to get_largest_and_smallest
    n,          \* the n given to get_largest_and_smallest
    ranked,     \* what get_largest_and_smallest returned
    metrics,    \* what gather_metrics returned, as differentiate_metrics left it
    those,      \* the Metrics of the previous snapshot (None if there is none)
    listed,     \* what all_bookmarks_sorted returned (None until it returns)
    chars,      \* the str given to parse_fragment
    parsed,     \* what parse_fragment returned or raised
    given,      \* the class and the keywords of a call of Node, Folder or Bookmark
    made        \* what that call returned or raised

vars == <<pc, data, queue, stack, result, error, json, decoded, first,
          fragment, filled, sizes, n, ranked, metrics, those, listed, chars,
          parsed, given, made>>

parserVars == <<pc, data, queue, stack, result, error>>
jsonVars == <<json, decoded>>
fillVars == <<fragment, filled>>
rankVars == <<sizes, n, ranked>>
metricsVars == <<metrics, those, listed>>
textVars == <<chars, parsed>>
dataVars == <<given, made>>

None == <<>>
Some(v) == <<v>>

-----------------------------------------------------------------------------
(* Text *)

\* The code point of a character: Python compares str by code points.
Ord(c) ==
    CASE c = " " -> 32 [] c = "+" -> 43 [] c = "," -> 44 [] c = "-" -> 45
      [] c = "0" -> 48 [] c = "1" -> 49 [] c = "2" -> 50 [] c = "3" -> 51
      [] c = "4" -> 52 [] c = "5" -> 53 [] c = "6" -> 54 [] c = "7" -> 55
      [] c = "8" -> 56 [] c = "9" -> 57 [] c = ":" -> 58
      [] c = "B" -> 66 [] c = "a" -> 97 [] c = "b" -> 98 [] c = "c" -> 99
      [] c = "d" -> 100 [] c = "u" -> 117 [] c = "v" -> 118 [] c = "x" -> 120

\* s < t for two str values (lexicographic on code points).
RECURSIVE StrLess(_, _)
StrLess(s, t) ==
    IF t = <<>> THEN FALSE
    ELSE IF s = <<>> THEN TRUE
    ELSE IF Ord(Head(s)) # Ord(Head(t)) THEN Ord(Head(s)) < Ord(Head(t))
    ELSE StrLess(Tail(s), Tail(t))

Digits == {"0", "1", "2", "3", "4", "5", "6", "7", "8", "9"}

DigitVal(c) == Ord(c) - 48

\* str.strip() restricted to the space character.
RECURSIVE Strip(_)
Strip(s) ==
    IF s = <<>> THEN s
    ELSE IF Head(s) = " " THEN Strip(Tail(s))
    ELSE IF s[Len(s)] = " " THEN Strip(SubSeq(s, 1, Len(s) - 1))
    ELSE s

RECURSIVE DigitsVal(_, _)
DigitsVal(s, acc) ==
    IF s = <<>> THEN acc ELSE DigitsVal(Tail(s), 10 * acc + DigitVal(Head(s)))

\* The part of an integer literal after its optional sign.
Unsigned(s) == IF s # <<>> /\ Head(s) \in {"+", "-"} THEN Tail(s) ELSE s

\* int(s) succeeds: surrounding blanks, an optional sign, at least one digit.
IsInt(s) ==
    LET u == Unsigned(Strip(s))
    IN  u # <<>> /\ \A i \in 1..Len(u) : u[i] \in Digits

\* int(s), where it succeeds.
IntOf(s) ==
    LET t == Strip(s)
        v == DigitsVal(Unsigned(t), 0)
    IN  IF Head(t) = "-" THEN 0 - v ELSE v

\* s.split(', '): cut at every non-overlapping occurrence of comma-space,
\* scanning from the left; cur is the piece being built.
RECURSIVE SplitCommaSpace(_, _)
SplitCommaSpace(s, cur) ==
    IF s = <<>> THEN <<cur>>
    ELSE IF Len(s) >= 2 /\ s[1] = "," /\ s[2] = " "
         THEN <<cur>> \o SplitCommaSpace(SubSeq(s, 3, Len(s)), <<>>)
         ELSE SplitCommaSpace(Tail(s), Append(cur, Head(s)))

-----------------------------------------------------------------------------
(* Fragments: bin/bookmarkos/data/bookmarks.py *)

\* A markup fragment `<tag k1="v1" k2="v2">text</tag>`: its opening tag name,
\* the key="value" pairs of its attribute block in order, its inner text, and
\* whether the final closing tag is there.  The empty markup has tag "".
\* One blank follows the tag name; parse_fragment_str further down reads
\* fragments character by character.
EmptyMarkup == [tag |-> "", attrs |-> <<>>, text |-> <<>>, close |-> FALSE]

\* EXTRACTION_RE.fullmatch(content) is not None.
ExtractionMatches(markup) == markup.tag # "" /\ markup.close

\* The dict built from ATTRIB_RE.findall: a later pair overwrites an earlier.
AttribOf(attrs) ==
    [k \in {attrs[i][1] : i \in 1..Len(attrs)} |->
        LET last == CHOOSE i \in 1..Len(attrs) :
                        /\ attrs[i][1] = k
                        /\ \A j \in (i + 1)..Len(attrs) : attrs[j][1] # k
        IN  attrs[last][2]]

\* parse_fragment: (text, attrib), or the ValueError raised.
parse_fragment(content) ==
    IF ExtractionMatches(content)
    THEN [ok |-> TRUE, text |-> content.text, attrib |-> AttribOf(content.attrs)]
    ELSE [ok |-> FALSE, exc |-> "ValueError", kind |-> "ParseError"]

Raise(exc, kind) == [ok |-> FALSE, exc |-> exc, kind |-> kind]
Return(obj) == [ok |-> TRUE, obj |-> obj]

\* Folder() with one content list shared by every instance: what an earlier
\* call put there is still there.
NewFolderShared ==
    [class |-> "Folder", name |-> <<>>, created |-> 0, updated |-> 0,
     depth |-> 0,
     content |-> IF first # None /\ first[1].result # None
                 THEN first[1].result[1].content ELSE <<>>]

\* Node(), Folder() and Bookmark() with no arguments: the dataclass defaults.
NewNode == [class |-> "Node", name |-> <<>>, created |-> 0, updated |-> 0]

NewFolder ==
    [class |-> "Folder", name |-> <<>>, created |-> 0, updated |-> 0,
     depth |-> 0, content |-> <<>>]

NewBookmark ==
    [class |-> "Bookmark", name |-> <<>>, created |-> 0, updated |-> 0,
     url |-> <<>>, visited |-> None, tags |-> <<>>, notes |-> None]

\* The fields each dataclass declares, i.e. the keywords its __init__ takes.
InitFields(class) ==
    IF class = "Node"
    THEN {"name", "created", "updated"}
    ELSE IF class = "Folder"
    THEN {"name", "created", "updated", "depth", "content"}
    ELSE {"name", "created", "updated", "url", "visited", "tags", "notes"}

\* obj.attr = value, for an attribute the object may not have yet.
SetAttr(obj, attr, value) ==
    [k \in DOMAIN obj \cup {attr} |-> IF k = attr THEN value ELSE obj[k]]

\* Subscript as attrib.get(key, '') would be: a missing key gives ''.
SubscriptOrEmpty(attrib, key) ==
    IF key \in DOMAIN attrib THEN Return(attrib[key]) ELSE Return(<<>>)

\* attrib[key]: the value, or the KeyError.
Subscript(attrib, key) ==
    IF key \in DOMAIN attrib THEN Return(attrib[key])
    ELSE Raise("KeyError", "MissingField")

\* int(s): the integer, or the ValueError.
ToInt(s) ==
    IF IsInt(s) THEN Return(IntOf(s)) ELSE Raise("ValueError", "InvalidTimestamp")

\* int(attrib[key])
IntAttr(attrib, key) ==
    LET v == Subscript(attrib, key) IN IF v.ok THEN ToInt(v.obj) ELSE v

\* Folder.fill(markup) on a fresh Folder.
FolderFill(self, markup) ==
    IF markup = EmptyMarkup THEN Return(self)
    ELSE LET p == parse_fragment(markup)
         IN  IF ~p.ok THEN Raise(p.exc, p.kind)
             ELSE LET created == IntAttr(p.attrib, "ADD_DATE")
                      updated == IntAttr(p.attrib, "LAST_MODIFIED")
                  IN  IF ~created.ok THEN created
                      ELSE IF ~updated.ok THEN updated
                      ELSE Return([self EXCEPT !.name = p.text,
                                               !.created = created.obj,
                                               !.updated = updated.obj])

\* TagsOf with an empty or absent TAGS giving no tag at all.
TagsOfSkipEmpty(attrib) ==
    IF "TAGS" \in DOMAIN attrib /\ attrib["TAGS"] # <<>>
    THEN SplitCommaSpace(attrib["TAGS"], <<>>)
    ELSE <<>>

\* attrib.get('TAGS', '').split(', ')
TagsOf(attrib) ==
    SplitCommaSpace(IF "TAGS" \in DOMAIN attrib THEN attrib["TAGS"] ELSE <<>>,
                    <<>>)

\* Bookmark.fill(markup) on a fresh Bookmark.
BookmarkFill(self, markup) ==
    LET p == parse_fragment(markup)
    IN  IF ~p.ok THEN Raise(p.exc, p.kind)
        ELSE LET url == Subscript(p.attrib, "HREF")
                 created == IntAttr(p.attrib, "ADD_DATE")
                 updated == IntAttr(p.attrib, "LAST_MODIFIED")
                 visited == IF "LAST_VISIT" \in DOMAIN p.attrib
                            THEN ToInt(p.attrib["LAST_VISIT"])
                            ELSE Return(None)
             IN  IF ~url.ok THEN url
                 ELSE IF ~created.ok THEN created
                 ELSE IF ~updated.ok THEN updated
                 ELSE IF ~visited.ok THEN visited
                 ELSE Return([self EXCEPT
                          !.name = p.text,
                          !.url = url.obj,
                          !.created = created.obj,
                          !.updated = updated.obj,
                          !.visited = IF "LAST_VISIT" \in DOMAIN p.attrib
                                      THEN Some(visited.obj) ELSE None,
                          !.tags = self.tags \o TagsOf(p.attrib)])

-----------------------------------------------------------------------------
(* Lines: bin/bookmarkos/parser.py *)

\* One line of the export: the number of blanks it starts with, what follows
\* them (nothing, `<DL><p>`, `</DL><p>`, `<DT>` and a fragment, `<DD>` and
\* notes, or other text), and the fragment or the notes.
Line(kind, indent, markup, notes) ==
    [kind |-> kind, indent |-> indent, markup |-> markup, notes |-> notes]

HEADER_LINES == 4
MAX_NESTING_DEPTH == 100

\* lines[0] == ROOT_DL_TAG
IsRootDlTag(line) == line.kind = "DL_OPEN" /\ line.indent = 0

\* DT_PATTERN.fullmatch(line): blanks, <DT>, then <A or <H3, a blank, and
\* anything up to a final '>'.
DtMatches(line) ==
    /\ line.kind = "DT"
    /\ line.indent >= 1
    /\ line.markup.tag \in {"A", "H3"}
    /\ (line.markup.close \/ line.markup.text = <<>>)

\* DL_OPEN_PATTERN.fullmatch(line)
DlOpenMatches(line) == line.kind = "DL_OPEN" /\ line.indent >= 1

\* DD_PATTERN without the blanks it asks for before <DD>.
DdMatchesUnindented(line) == line.kind = "DD"

\* DD_PATTERN.fullmatch(line)
DdMatches(line) == line.kind = "DD" /\ line.indent >= 1

\* line == end_marker, for the folder of that depth
IsEndMarker(line, depth) == line.kind = "DL_CLOSE" /\ line.indent = 4 * depth

\* not line
IsBlank(line) == line.kind = "BLANK"

\* InsertByName going before the elements of equal name: not stable.
RECURSIVE InsertBeforeEqual(_, _)
InsertBeforeEqual(sorted, x) ==
    IF sorted = <<>> THEN <<x>>
    ELSE IF ~StrLess(Head(sorted).name, x.name) THEN <<x>> \o sorted
    ELSE <<Head(sorted)>> \o InsertBeforeEqual(Tail(sorted), x)

\* list.sort(key=attrgetter('name')): a stable sort, here by insertion after
\* every element whose name is not greater.
RECURSIVE InsertByName(_, _)
InsertByName(sorted, x) ==
    IF sorted = <<>> THEN <<x>>
    ELSE IF StrLess(x.name, Head(sorted).name) THEN <<x>> \o sorted
    ELSE <<Head(sorted)>> \o InsertByName(Tail(sorted), x)

RECURSIVE SortByName(_)
SortByName(content) ==
    IF content = <<>> THEN <<>>
    ELSE InsertByName(SortByName(SubSeq(content, 1, Len(content) - 1)),
                      content[Len(content)])

-----------------------------------------------------------------------------
(* The parser as a state machine: one step per line taken by the loop of   *)
(* process_folder.  The recursion of process_folder through process_dt is  *)
(* the stack of frames; a frame holds the locals of one process_folder     *)
(* call.  An exception ends the call: pc becomes "failed", and the frames  *)
(* and the queue stay as they were when it was raised.                     *)

Top == stack[Len(stack)]

\* ProcessFolderEntry handing its children the folder's own name alone as
\* their parent, the path above it dropped.
ProcessFolderEntryFlat(text, path) ==
    IF Len(path) > MAX_NESTING_DEPTH
    THEN Raise("ValueError", "StructureTooDeep")
    ELSE LET f == FolderFill(NewFolder, text)
         IN  IF ~f.ok THEN f
             ELSE LET folder == SetAttr([f.obj EXCEPT !.depth = Len(path)],
                                        "parent", path)
                  IN  Return([folder |-> folder,
                              depth |-> Len(path),
                              parent |-> <<folder.name>>,
                              line |-> None])

\* The entry of process_folder(text, queue, path), up to the loop: the new
\* frame, or the exception raised.
ProcessFolderEntry(text, path) ==
    IF Len(path) > MAX_NESTING_DEPTH
    THEN Raise("ValueError", "StructureTooDeep")
    ELSE LET f == FolderFill(NewFolder, text)
         IN  IF ~f.ok THEN f
             ELSE LET folder == SetAttr([f.obj EXCEPT !.depth = Len(path)],
                                        "parent", path)
                  IN  Return([folder |-> folder,
                              depth |-> Len(path),
                              parent |-> Append(path, folder.name),
                              line |-> None])

\* queue.appendleft(next_line) left out: the line is gone.
AppendLeftLost(lines, line) == lines

\* queue.appendleft(next_line)
AppendLeft(lines, line) == <<line>> \o lines

\* The call ends with an exception raised for `folder`.
Fail(exc, kind, at, folder) ==
    /\ pc' = "failed"
    /\ error' = [exc |-> exc, kind |-> kind, at |-> at, folder |-> folder]
    /\ result' = None

\* ReturnFolder with the Folder of an inner call dropped by process_dt
\* instead of appended to the content of the enclosing folder.
ReturnFolderLost ==
    LET folder == [Top.folder EXCEPT !.content = SortByName(@)]
    IN  IF Len(stack) = 1
        THEN /\ stack' = <<>>
             /\ result' = Some(folder)
             /\ pc' = "done"
             /\ error' = None
        ELSE /\ stack' = [SubSeq(stack, 1, Len(stack) - 1) EXCEPT
                            ![Len(stack) - 1].line = None]
             /\ UNCHANGED <<result, pc, error>>

\* The innermost process_folder call returns: its content is sorted, and the
\* Folder goes to parse_bookmarks' caller or, through process_dt, to the end
\* of the enclosing folder's content, whose loop then clears `line`.
ReturnFolder ==
    LET folder == [Top.folder EXCEPT !.content = SortByName(@)]
    IN  IF Len(stack) = 1
        THEN /\ stack' = <<>>
             /\ result' = Some(folder)
             /\ pc' = "done"
             /\ error' = None
        ELSE /\ stack' = [SubSeq(stack, 1, Len(stack) - 1) EXCEPT
                            ![Len(stack) - 1].folder.content = Append(@, folder),
                            ![Len(stack) - 1].line = None]
             /\ UNCHANGED <<result, pc, error>>

\* parse_bookmarks, up to the first turn of the root folder's loop.
ParseBookmarks ==
    /\ pc = "start"
    /\ UNCHANGED <<data, jsonVars, first, fillVars, rankVars,
                   metricsVars, textVars, dataVars>>
    /\ IF Len(data) < HEADER_LINES + 1
       THEN /\ Fail("ValueError", "TooShort", "parse_bookmarks", <<>>)
            /\ UNCHANGED <<queue, stack>>
       ELSE IF ~IsRootDlTag(data[HEADER_LINES + 1])
       THEN /\ Fail("ValueError", "MissingRoot", "parse_bookmarks", <<>>)
            /\ UNCHANGED <<queue, stack>>
       ELSE LET e == ProcessFolderEntry(EmptyMarkup, <<>>)
            IN  /\ queue' = SubSeq(data, HEADER_LINES + 2, Len(data))
                /\ stack' = <<e.obj>>
                /\ pc' = "folder"
                /\ UNCHANGED <<result, error>>

\* The loop takes the folder's end marker: break, sort, return.
FolderEnd ==
    /\ pc = "folder"
    /\ queue # <<>>
    /\ IsEndMarker(Head(queue), Top.depth)
    /\ queue' = Tail(queue)
    /\ ReturnFolder
    /\ UNCHANGED <<data, jsonVars, first, fillVars, rankVars,
                   metricsVars, textVars, dataVars>>

\* The loop takes an empty line: continue, with `line` still set to it.
FolderBlank ==
    /\ pc = "folder"
    /\ queue # <<>>
    /\ ~IsEndMarker(Head(queue), Top.depth)
    /\ IsBlank(Head(queue))
    /\ queue' = Tail(queue)
    /\ stack' = [stack EXCEPT ![Len(stack)].line = Some(Head(queue))]
    /\ UNCHANGED <<pc, result, error, data, jsonVars, first, fillVars, rankVars,
                   metricsVars, textVars, dataVars>>

\* process_dt(line, queue, folder, parent) for a line that contains <DT>.
ProcessDt ==
    /\ pc = "folder"
    /\ queue # <<>>
    /\ ~IsEndMarker(Head(queue), Top.depth)
    /\ Head(queue).kind = "DT"
    /\ UNCHANGED <<data, jsonVars, first, fillVars, rankVars,
                   metricsVars, textVars, dataVars>>
    /\ LET line == Head(queue)
           rest == Tail(queue)
           name == Top.folder.name
       IN  IF Len(Top.parent) > MAX_NESTING_DEPTH
           THEN /\ Fail("ValueError", "StructureTooDeep", "process_dt", name)
                /\ queue' = rest
                /\ UNCHANGED stack
           ELSE IF ~DtMatches(line)
           THEN /\ Fail("ValueError", "MalformedStructure", "process_dt:format", name)
                /\ queue' = rest
                /\ UNCHANGED stack
           ELSE IF line.markup.tag = "A"
           THEN LET b == BookmarkFill(NewBookmark, line.markup)
                IN  /\ queue' = rest
                    /\ IF ~b.ok
                       THEN /\ Fail(b.exc, b.kind, "Bookmark.fill", name)
                            /\ UNCHANGED stack
                       ELSE /\ stack' = [stack EXCEPT
                                 ![Len(stack)].folder.content =
                                     Append(@, SetAttr(b.obj, "parent", Top.parent)),
                                 ![Len(stack)].line = None]
                            /\ UNCHANGED <<pc, result, error>>
           ELSE IF rest = <<>>
           THEN /\ Fail("ValueError", "UnexpectedEnd", "process_dt:eof", name)
                /\ queue' = rest
                /\ UNCHANGED stack
           ELSE IF ~DlOpenMatches(Head(rest))
           THEN \* the line is put back at the front of the queue
                /\ Fail("ValueError", "MalformedStructure", "process_dt:missing_dl", name)
                /\ queue' = AppendLeft(Tail(rest), Head(rest))
                /\ UNCHANGED stack
           ELSE LET e == ProcessFolderEntry(line.markup, Top.parent)
                IN  /\ queue' = Tail(rest)
                    /\ IF ~e.ok
                       THEN /\ Fail(e.exc, e.kind, "process_folder:entry", name)
                            /\ UNCHANGED stack
                       ELSE /\ stack' = Append(stack, e.obj)
                            /\ UNCHANGED <<pc, result, error>>

\* process_dd(line, folder) for a line that contains <DD> and not <DT>.
ProcessDd ==
    /\ pc = "folder"
    /\ queue # <<>>
    /\ ~IsEndMarker(Head(queue), Top.depth)
    /\ Head(queue).kind = "DD"
    /\ queue' = Tail(queue)
    /\ UNCHANGED <<data, jsonVars, first, fillVars, rankVars,
                   metricsVars, textVars, dataVars>>
    /\ LET line == Head(queue)
           content == Top.folder.content
           name == Top.folder.name
       IN  IF content = <<>>
           THEN /\ Fail("ValueError", "MalformedStructure", "process_dd:empty", name)
                /\ UNCHANGED stack
           ELSE IF ~DdMatches(line)
           THEN /\ Fail("ValueError", "MalformedStructure", "process_dd:format", name)
                /\ UNCHANGED stack
           ELSE IF content[Len(content)].class # "Bookmark"
           THEN /\ Fail("ValueError", "MalformedStructure", "process_dd:folder", name)
                /\ UNCHANGED stack
           ELSE /\ stack' = [stack EXCEPT
                     ![Len(stack)].folder.content[Len(content)].notes =
                         IF line.notes # <<>> THEN Some(line.notes) ELSE @,
                     ![Len(stack)].line = None]
                /\ UNCHANGED <<pc, result, error>>

\* The loop takes a line that is neither: "Unknown content".
FolderUnknown ==
    /\ pc = "folder"
    /\ queue # <<>>
    /\ ~IsEndMarker(Head(queue), Top.depth)
    /\ ~IsBlank(Head(queue))
    /\ Head(queue).kind \notin {"DT", "DD"}
    /\ queue' = Tail(queue)
    /\ Fail("ValueError", "MalformedStructure", "process_folder:unknown",
            Top.folder.name)
    /\ UNCHANGED <<stack, data, jsonVars, first, fillVars, rankVars,
                   metricsVars, textVars, dataVars>>

\* The loop finds the queue empty and ends: `line is None` decides between
\* the error and the return of the folder.
FolderExhausted ==
    /\ pc = "folder"
    /\ queue = <<>>
    /\ UNCHANGED <<queue, data, jsonVars, first, fillVars, rankVars,
                   metricsVars, textVars, dataVars>>
    /\ IF Top.line = None
       THEN /\ Fail("ValueError", "UnterminatedFolder", "process_folder:end",
                    Top.folder.name)
            /\ UNCHANGED stack
       ELSE ReturnFolder

-----------------------------------------------------------------------------
(* Inputs *)

MaxLines == 5

Markup(tag, attrs, text, close) ==
    [tag |-> tag, attrs |-> attrs, text |-> text, close |-> close]

Dates(created, updated) ==
    <<<<"ADD_DATE", created>>, <<"LAST_MODIFIED", updated>>>>

\* `    <DT><A HREF="url" ADD_DATE="created" LAST_MODIFIED="created">name</A>`
BookmarkLine(name, url, created) ==
    Line("DT", 4,
         Markup("A", <<<<"HREF", url>>>> \o Dates(created, created), name, TRUE),
         <<>>)

\* `    <DT><H3 ADD_DATE="created" LAST_MODIFIED="created">name</H3>`
FolderLine(name, created) ==
    Line("DT", 4, Markup("H3", Dates(created, created), name, TRUE), <<>>)

DlOpen(indent) == Line("DL_OPEN", indent, EmptyMarkup, <<>>)
DlClose(indent) == Line("DL_CLOSE", indent, EmptyMarkup, <<>>)
Blank == Line("BLANK", 0, EmptyMarkup, <<>>)
DdLine(notes) == Line("DD", 4, EmptyMarkup, notes)
TextLine == Line("TEXT", 0, EmptyMarkup, <<>>)

\* The four header lines (DOCTYPE, META, TITLE, H1), which are not looked at.
Header == <<TextLine, TextLine, TextLine, TextLine>>

SeqsUpTo(S, m) == UNION {[1..k -> S] : k \in 0..m}

\* The documents over an alphabet of lines, as content.split("\n") gives them
\* (at least one line): those too short to hold a body, those whose fifth
\* line is any line of the alphabet, and those with the root opener and a
\* body of at most m lines.
Documents(lines, m) ==
    {SubSeq(Header, 1, k) : k \in 1..HEADER_LINES}
    \cup {Header \o <<l>> : l \in lines}
    \cup {Header \o <<DlOpen(0)>> \o body : body \in SeqsUpTo(lines, m)}

\* Lines for the structure of folders: openers and end markers at several
\* indentations, a bookmark, a folder, notes, an empty line.
StructureLines ==
    {DlClose(0), DlClose(4), DlOpen(4), DlOpen(2), Blank,
     BookmarkLine(<<"a">>, <<"u">>, <<"1">>), FolderLine(<<"b">>, <<"2">>),
     DdLine(<<"x">>)}

MaxFillLines == 2
MaxTagLen == 4

Opt(key, values) == {<<>>} \cup {<<<<key, v>>>> : v \in values}

\* The values of a TAGS attribute: every string of a, comma and blank up to
\* a length.
TagValues == SeqsUpTo({"a", ",", " "}, MaxTagLen)

\* The attribute blocks of the fragments given to Bookmark.fill: each
\* attribute there or not, dates that are integers or not, and a TAGS
\* attribute that may come twice.
AttrBlocks ==
    {h \o a \o m \o v \o t \o t2 :
        h \in Opt("HREF", {<<"u">>}),
        a \in Opt("ADD_DATE", {<<"1">>, <<"x">>}),
        m \in Opt("LAST_MODIFIED", {<<"-", "2">>}),
        v \in Opt("LAST_VISIT", {<<"3">>, <<"x">>}),
        t \in Opt("TAGS", TagValues),
        t2 \in Opt("TAGS", {<<"a", ",", " ", "a">>})}

Fragments ==
    {Markup("A", attrs, <<"a">>, close) :
        attrs \in AttrBlocks, close \in BOOLEAN}

\* `    <DT><A attrs>a</A>`
ALine(attrs) == Line("DT", 4, Markup("A", attrs, <<"a">>, TRUE), <<>>)

Href == <<<<"HREF", <<"u">>>>>>
AddDate(v) == <<<<"ADD_DATE", v>>>>
LastModified(v) == <<<<"LAST_MODIFIED", v>>>>
LastVisit(v) == <<<<"LAST_VISIT", v>>>>

\* Lines for the building of bookmarks: fragments with each required
\* attribute missing or not an integer, and with LAST_VISIT.
FillLines ==
    {DlClose(0), DlOpen(4), Blank, DdLine(<<"x">>), FolderLine(<<"b">>, <<"2">>),
     ALine(Href \o AddDate(<<"1">>) \o LastModified(<<"2">>)),
     ALine(AddDate(<<"1">>) \o LastModified(<<"2">>)),
     ALine(Href \o LastModified(<<"2">>)),
     ALine(Href \o AddDate(<<"1">>)),
     ALine(Href \o AddDate(<<"x">>) \o LastModified(<<"2">>)),
     ALine(Href \o AddDate(<<"1">>) \o LastModified(<<>>)),
     ALine(Href \o AddDate(<<"1">>) \o LastModified(<<"2">>) \o LastVisit(<<"3">>)),
     ALine(Href \o AddDate(<<"1">>) \o LastModified(<<"2">>) \o LastVisit(<<"x">>)),
     ALine(Href \o AddDate(<<"x">>) \o LastModified(<<"2">>) \o AddDate(<<"1">>))}

InitParser(lines, m) ==
    /\ pc = "start"
    /\ data \in Documents(lines, m)
    /\ queue = <<>>
    /\ stack = <<>>
    /\ result = None
    /\ error = None
    /\ json = None
    /\ decoded = None
    /\ first = None
    /\ fragment = EmptyMarkup
    /\ filled = None
    /\ sizes = <<>>
    /\ n = 0
    /\ ranked = None
    /\ metrics = None
    /\ those = None
    /\ chars = <<>>
    /\ parsed = None
    /\ listed = None
    /\ given = None
    /\ made = None

Init == InitParser(StructureLines, MaxLines)

Next ==
    \/ ParseBookmarks
    \/ FolderEnd
    \/ FolderBlank
    \/ ProcessDt
    \/ ProcessDd
    \/ FolderUnknown
    \/ FolderExhausted

Spec == Init /\ [][Next]_vars

\* Lines for the order of a folder's content: names out of order, and a
\* bookmark and a folder of the same name; notes tell two bookmarks of the
\* same name apart.
SortLines ==
    {DlClose(0), DlClose(4), DlOpen(4), Blank,
     BookmarkLine(<<"b">>, <<"u">>, <<"1">>),
     BookmarkLine(<<"a">>, <<"u">>, <<"1">>),
     FolderLine(<<"a">>, <<"3">>),
     DdLine(<<"x">>)}

InitSort == InitParser(SortLines, MaxLines)

SpecSort == InitSort /\ [][Next]_vars

-----------------------------------------------------------------------------
(* JSON: bin/bookmarkos/json_io.py *)

\* json.dumps(o, cls=BasicEncoder): an object that is no JSON value goes
\* through BasicEncoder.default, which gives its __dict__; the Folders and
\* Bookmarks of a content list are encoded in turn.  A JSON object is the
\* mapping of its keys, an array a sequence, null is None.
RECURSIVE Encode(_)
Encode(o) ==
    [k \in DOMAIN o \ {"class"} |->
        IF k = "content"
        THEN [i \in 1..Len(o.content) |-> Encode(o.content[i])]
        ELSE o[k]]

\* Folder(**kwargs) or Bookmark(**kwargs): a keyword that is no field of the
\* dataclass is a TypeError; a field not given takes its default.
Construct(new, kwargs) ==
    IF ~(DOMAIN kwargs \subseteq InitFields(new.class))
    THEN Raise("TypeError", "UnexpectedKeyword")
    ELSE Return([k \in DOMAIN new |->
                    IF k \in DOMAIN kwargs THEN kwargs[k] ELSE new[k]])

\* BookmarksDecoder.object_transform
object_transform(obj) ==
    IF "tags" \in DOMAIN obj THEN Construct(NewBookmark, obj)
    ELSE IF "content" \in DOMAIN obj THEN Construct(NewFolder, obj)
    ELSE Return(obj)

\* json.loads(text, cls=BookmarksDecoder): the hook is applied to every JSON
\* object once the objects inside it are decoded; the first exception ends
\* the decoding.
RECURSIVE Decode(_)
Decode(j) ==
    IF "content" \notin DOMAIN j THEN object_transform(j)
    ELSE LET kids == [i \in 1..Len(j.content) |-> Decode(j.content[i])]
             bad == {i \in 1..Len(j.content) : ~kids[i].ok}
         IN  IF bad # {}
             THEN kids[CHOOSE i \in bad : \A k \in bad : i <= k]
             ELSE object_transform(
                      [j EXCEPT !.content =
                          [i \in 1..Len(j.content) |-> kids[i].obj]])

\* write_json_data(tree, file) on the tree that parse_bookmarks returned.
WriteJson ==
    /\ pc = "done"
    /\ json' = Some(Encode(result[1]))
    /\ pc' = "written"
    /\ UNCHANGED <<data, queue, stack, result, error, decoded, first,
                   fillVars, rankVars,
                   metricsVars, textVars, dataVars>>

\* read_bookmarks_json(file) on what was written.
ReadJson ==
    /\ pc = "written"
    /\ decoded' = Decode(json[1])
    /\ pc' = "read"
    /\ UNCHANGED <<data, queue, stack, result, error, json, first,
                   fillVars, rankVars,
                   metricsVars, textVars, dataVars>>

NextJson == Next \/ WriteJson \/ ReadJson

SpecJson == Init /\ [][NextJson]_vars

-----------------------------------------------------------------------------
(* Calls of parse_bookmarks one after the other *)

MaxTwiceLines == 4

\* The documents parsed between the two calls on one document.
OtherDocuments ==
    {Header \o <<DlOpen(0), BookmarkLine(<<"c">>, <<"v">>, <<"3">>), DlClose(0)>>,
     Header \o <<DlOpen(0), FolderLine(<<"c">>, <<"3">>)>>}

\* A call has ended and parse_bookmarks is called again.  After the first
\* call its outcome is kept, and the next call is on the same document or on
\* another one; after a call on another document the next is on the first
\* document again.  Nothing of a call is left but what it returned.
ParseAgain ==
    /\ pc \in {"done", "failed"}
    /\ \/ /\ first = None
          /\ data' \in {data} \cup OtherDocuments
          /\ first' = Some([data |-> data, pc |-> pc, result |-> result,
                            error |-> error, between |-> data' # data])
       \/ /\ first # None
          /\ data # first[1].data
          /\ data' = first[1].data
          /\ UNCHANGED first
    /\ pc' = "start"
    /\ queue' = <<>>
    /\ stack' = <<>>
    /\ result' = None
    /\ error' = None
    /\ UNCHANGED <<jsonVars, fillVars, rankVars,
                   metricsVars, textVars, dataVars>>

InitTwice == InitParser(StructureLines, MaxTwiceLines)

NextTwice == Next \/ ParseAgain

SpecTwice == InitTwice /\ [][NextTwice]_vars

InitDt == InitParser(FillLines, MaxFillLines)

SpecDt == InitDt /\ [][Next]_vars

\* Bookmark().fill(markup) on its own.
InitFill ==
    /\ pc = "fill"
    /\ fragment \in Fragments
    /\ filled = None
    /\ data = <<>>
    /\ queue = <<>>
    /\ stack = <<>>
    /\ result = None
    /\ error = None
    /\ json = None
    /\ decoded = None
    /\ first = None
    /\ sizes = <<>>
    /\ n = 0
    /\ ranked = None
    /\ metrics = None
    /\ those = None
    /\ chars = <<>>
    /\ parsed = None
    /\ listed = None
    /\ given = None
    /\ made = None

Fill ==
    /\ pc = "fill"
    /\ filled' = BookmarkFill(NewBookmark, fragment)
    /\ pc' = "filled"
    /\ UNCHANGED <<fragment, data, queue, stack, result, error, jsonVars,
                   first, rankVars, metricsVars, textVars, dataVars>>

NextFill == Fill

SpecFill == InitFill /\ [][NextFill]_vars

-----------------------------------------------------------------------------
(* The rank aggregator: bin/bookmarkos/metrics.py *)

MaxSize == 2
MaxN == 5

\* The names of a histogram's entries.
RankNames == {<<"a">>, <<"b">>, <<"B">>, <<"a", "b">>}

\* A histogram is a Counter, a dict that keeps the order in which its keys
\* were put in: a sequence of <<name, size>> with no name twice.
Histograms ==
    {h \in SeqsUpTo(RankNames \X (0..MaxSize), Cardinality(RankNames)) :
        \A i, j \in 1..Len(h) : i # j => h[i][1] # h[j][1]}

\* sorted(..., key=itemgetter(1), reverse=True): stable, so an entry goes
\* after every entry whose size is not smaller.
RECURSIVE InsertBySizeDesc(_, _)
InsertBySizeDesc(sorted, x) ==
    IF sorted = <<>> THEN <<x>>
    ELSE IF Head(sorted)[2] < x[2] THEN <<x>> \o sorted
    ELSE <<Head(sorted)>> \o InsertBySizeDesc(Tail(sorted), x)

RECURSIVE SortBySizeDesc(_)
SortBySizeDesc(items) ==
    IF items = <<>> THEN <<>>
    ELSE InsertBySizeDesc(SortBySizeDesc(SubSeq(items, 1, Len(items) - 1)),
                          items[Len(items)])

\* sorted(names)
RECURSIVE InsertStr(_, _)
InsertStr(sorted, x) ==
    IF sorted = <<>> THEN <<x>>
    ELSE IF StrLess(x, Head(sorted)) THEN <<x>> \o sorted
    ELSE <<Head(sorted)>> \o InsertStr(Tail(sorted), x)

RECURSIVE SortStr(_)
SortStr(names) ==
    IF names = <<>> THEN <<>>
    ELSE InsertStr(SortStr(SubSeq(names, 1, Len(names) - 1)), names[Len(names)])

\* The length of the first group that itertools.groupby gives: the entries
\* at the front that have the size of the first.
RECURSIVE RunLength(_)
RunLength(items) ==
    IF Len(items) >= 2 /\ items[2][2] = items[1][2]
    THEN 1 + RunLength(Tail(items))
    ELSE 1

\* current_rank += 1, as a ranking without gaps would have it.
AdvanceRankDense(current_rank, group_items) == current_rank + 1

\* current_rank += len(group_items)
AdvanceRank(current_rank, group_items) == current_rank + Len(group_items)

\* The loop over groupby(sorted_sizes): ranked_with_ties.
RECURSIVE RankedWithTies(_, _)
RankedWithTies(sorted_sizes, current_rank) ==
    IF sorted_sizes = <<>> THEN <<>>
    ELSE LET k == RunLength(sorted_sizes)
             group_items == SubSeq(sorted_sizes, 1, k)
             names == [i \in 1..k |-> group_items[i][1]]
         IN  <<<<current_rank, group_items[1][2], SortStr(names)>>>>
             \o RankedWithTies(SubSeq(sorted_sizes, k + 1, Len(sorted_sizes)),
                               AdvanceRank(current_rank, group_items))

\* largest_count += 1, as counting the groups would have it.
CountedGroups(count, names) == count + 1

\* largest_count += len(names)
Counted(count, names) == count + Len(names)

\* One of the two extraction loops: a group is taken while the count is
\* below n, and the loop breaks once the count has reached n.
RECURSIVE Extract(_, _, _)
Extract(groups, limit, count) ==
    IF groups = <<>> THEN <<>>
    ELSE LET take == count < limit
             counted == IF take THEN Counted(count, Head(groups)[3]) ELSE count
         IN  (IF take THEN <<Head(groups)>> ELSE <<>>)
             \o (IF counted >= limit THEN <<>>
                 ELSE Extract(Tail(groups), limit, counted))

\* reversed(seq) left out.
NotReversed(seq) == seq

\* reversed(seq)
Reversed(seq) == [i \in 1..Len(seq) |-> seq[Len(seq) + 1 - i]]

\* get_largest_and_smallest(sizes, n): (largest, smallest)
get_largest_and_smallest(histogram, limit) ==
    IF histogram = <<>> THEN <<<<>>, <<>>>>
    ELSE LET ranked_with_ties == RankedWithTies(SortBySizeDesc(histogram), 1)
             largest == Extract(ranked_with_ties, limit, 0)
             smallest == Extract(Reversed(ranked_with_ties), limit, 0)
         IN  <<largest, Reversed(smallest)>>

InitRank ==
    /\ pc = "rank"
    /\ sizes \in Histograms
    /\ n \in 0..MaxN
    /\ ranked = None
    /\ metrics = None
    /\ those = None
    /\ chars = <<>>
    /\ parsed = None
    /\ listed = None
    /\ given = None
    /\ made = None
    /\ data = <<>>
    /\ queue = <<>>
    /\ stack = <<>>
    /\ result = None
    /\ error = None
    /\ json = None
    /\ decoded = None
    /\ first = None
    /\ fragment = EmptyMarkup
    /\ filled = None

Rank ==
    /\ pc = "rank"
    /\ ranked' = Some(get_largest_and_smallest(sizes, n))
    /\ pc' = "ranked"
    /\ UNCHANGED <<sizes, n, data, queue, stack, result, error, jsonVars,
                   first, fillVars, metricsVars, textVars, dataVars>>

NextRank == Rank

SpecRank == InitRank /\ [][NextRank]_vars

-----------------------------------------------------------------------------
(* The metrics gatherer: bin/bookmarkos/metrics.py,                        *)
(* bin/bookmarkos/data/metrics.py                                          *)
(*                                                                         *)
(* A set that a Metrics object holds is an object of its own: its identity *)
(* and its elements.  A Counter is the sequence of its <<key, count>>      *)
(* entries in the order the keys were put in.  A float is the pair of a    *)
(* numerator and a denominator, left as the division gave it.              *)

\* sys.maxsize, the default of min_size: a value that no size reaches
\* stands for it.
sys_maxsize == 2147483647

\* max(a, b) giving its first argument whatever the second is.
MaxKeep(a, b) == a

Max(a, b) == IF a >= b THEN a ELSE b
Min(a, b) == IF a <= b THEN a ELSE b

\* a / b, and the float literals 0.0 and 1.0
Float(num, den) == [num |-> num, den |-> den]

\* A set object.
SetObj(id, elems) == [id |-> id, elems |-> elems]

\* key in counter
CounterHas(counter, key) == \E i \in 1..Len(counter) : counter[i][1] = key

\* counter[key]: a missing key counts 0
CounterGet(counter, key) ==
    IF CounterHas(counter, key)
    THEN counter[CHOOSE i \in 1..Len(counter) : counter[i][1] = key][2]
    ELSE 0

\* counter[key] = value: a new key goes to the end
CounterSet(counter, key, value) ==
    IF CounterHas(counter, key)
    THEN [i \in 1..Len(counter) |->
             IF counter[i][1] = key THEN <<key, value>> ELSE counter[i]]
    ELSE Append(counter, <<key, value>>)

\* counter.update(other): the counts of `other` are added to those there.
RECURSIVE CounterUpdate(_, _)
CounterUpdate(counter, other) ==
    IF other = <<>> THEN counter
    ELSE LET key == Head(other)[1]
         IN  CounterUpdate(
                 CounterSet(counter, key, CounterGet(counter, key) + Head(other)[2]),
                 Tail(other))

\* sum(sizes.values())
RECURSIVE CounterTotal(_)
CounterTotal(counter) ==
    IF counter = <<>> THEN 0 ELSE Head(counter)[2] + CounterTotal(Tail(counter))

\* FoldersMetrics(), BookmarksMetrics(), TagsMetrics() and Metrics() with
\* their defaults; `snapshot` tells the objects of one Metrics() from those
\* of another.
FoldersMetrics(snapshot) ==
    [count |-> 0,
     items |-> SetObj(<<snapshot, "folders", "items">>, {}),
     added |-> SetObj(<<snapshot, "folders", "added">>, {}),
     added_count |-> 0,
     deleted |-> SetObj(<<snapshot, "folders", "deleted">>, {}),
     deleted_count |-> 0,
     delta |-> 0,
     delta_pct |-> Float(0, 1),
     sizes |-> <<>>,
     min_size |-> sys_maxsize,
     max_size |-> 0,
     avg_size |-> Float(0, 1),
     top_n |-> <<>>,
     bottom_n |-> <<>>,
     max_depth |-> 0]

BookmarksMetrics(snapshot) ==
    [count |-> 0,
     items |-> SetObj(<<snapshot, "bookmarks", "items">>, {}),
     added |-> SetObj(<<snapshot, "bookmarks", "added">>, {}),
     added_count |-> 0,
     deleted |-> SetObj(<<snapshot, "bookmarks", "deleted">>, {}),
     deleted_count |-> 0,
     delta |-> 0,
     delta_pct |-> Float(0, 1),
     new_bookmarks |-> <<>>,
     new_bookmarks_by_date |-> <<>>]

TagsMetrics(snapshot) ==
    [count |-> 0,
     items |-> SetObj(<<snapshot, "tags", "items">>, {}),
     added |-> SetObj(<<snapshot, "tags", "added">>, {}),
     added_count |-> 0,
     deleted |-> SetObj(<<snapshot, "tags", "deleted">>, {}),
     deleted_count |-> 0,
     delta |-> 0,
     delta_pct |-> Float(0, 1),
     sizes |-> <<>>,
     min_size |-> sys_maxsize,
     max_size |-> 0,
     avg_size |-> Float(0, 1),
     top_n |-> <<>>,
     bottom_n |-> <<>>,
     unique_tags_count |-> 0,
     tags_by_date |-> <<>>]

Metrics(snapshot) ==
    [folders |-> FoldersMetrics(snapshot),
     bookmarks |-> BookmarksMetrics(snapshot),
     tags |-> TagsMetrics(snapshot)]

\* '::'.join(path)
RECURSIVE JoinPath(_)
JoinPath(path) ==
    IF path = <<>> THEN <<>>
    ELSE IF Len(path) = 1 THEN path[1]
    ELSE path[1] \o <<":", ":">> \o JoinPath(Tail(path))

\* for tag in bookmark.tags: the tag goes to tags.items, its count goes up.
RECURSIVE TagLoop(_, _)
TagLoop(tags_metrics, tags) ==
    IF tags = <<>> THEN tags_metrics
    ELSE TagLoop(
             [tags_metrics EXCEPT
                 !.items.elems = @ \cup {Head(tags)},
                 !.sizes = CounterSet(@, Head(tags), CounterGet(@, Head(tags)) + 1)],
             Tail(tags))

\* for bookmark in bookmarks
RECURSIVE BookmarkLoop(_, _)
BookmarkLoop(m, bookmarks) ==
    IF bookmarks = <<>> THEN m
    ELSE LET bookmark == Head(bookmarks)
             num_tags == Len(bookmark.tags)
             counted == [m EXCEPT
                            !.bookmarks.items.elems = @ \cup {bookmark.created},
                            !.tags.count = @ + num_tags,
                            !.tags.max_size = Max(@, num_tags),
                            !.tags.min_size = Min(@, num_tags)]
         IN  BookmarkLoop([counted EXCEPT !.tags = TagLoop(@, bookmark.tags)],
                          Tail(bookmarks))

\* _gather_metrics(node, path, metrics): the metrics as the call leaves them
\* and the Counter it returns.  SubfolderLoop is its loop over subfolders.
RECURSIVE _gather_metrics(_, _, _)
RECURSIVE SubfolderLoop(_, _, _, _)
SubfolderLoop(subfolders, path, m, folder_sizes) ==
    IF subfolders = <<>> THEN [metrics |-> m, folder_sizes |-> folder_sizes]
    ELSE LET subfolder == Head(subfolders)
             newpath == Append(path, subfolder.name)
             sub == _gather_metrics(subfolder, newpath, m)
         IN  SubfolderLoop(Tail(subfolders), path, sub.metrics,
                           CounterUpdate(folder_sizes, sub.folder_sizes))

_gather_metrics(node, path, m) ==
    LET folder_id == JoinPath(path)
        folder_size == Len(node.content)
        bookmarks == SelectSeq(node.content, LAMBDA x : x.class = "Bookmark")
        subfolders == SelectSeq(node.content, LAMBDA x : x.class = "Folder")
        bookmark_count == Len(bookmarks)
        counted ==
            [m EXCEPT
                !.folders.max_depth = Max(@, node.depth),
                !.folders.count = @ + 1,
                !.folders.items.elems = @ \cup {folder_id},
                !.folders.sizes = CounterSet(@, folder_id, folder_size),
                !.folders.max_size = Max(@, folder_size),
                !.folders.min_size = Min(@, folder_size),
                !.bookmarks.count = @ + Len(bookmarks)]
    IN  SubfolderLoop(subfolders, path, BookmarkLoop(counted, bookmarks),
                      CounterSet(<<>>, folder_id, bookmark_count))

\* average_size(metrics); sizes is never None here.
average_size(size_metrics) ==
    LET sizes_ == size_metrics.sizes
        count == Len(sizes_)
    IN  IF count = 0 THEN Return(Float(0, 1))
        ELSE Return(Float(CounterTotal(sizes_), count))

\* gather_metrics(week), the Metrics() it makes being that of `snapshot`.
gather_metrics(week, snapshot) ==
    LET g == _gather_metrics(week, << <<>> >>, Metrics(snapshot))
        m == g.metrics
        tags_avg == average_size(m.tags)
        folders_avg == average_size(m.folders)
        folders_rank == get_largest_and_smallest(g.folder_sizes, 5)
        tags_rank == get_largest_and_smallest(m.tags.sizes, 25)
    IN  IF ~tags_avg.ok THEN tags_avg
        ELSE IF ~folders_avg.ok THEN folders_avg
        ELSE Return([m EXCEPT
                 !.tags.avg_size = tags_avg.obj,
                 !.folders.avg_size = folders_avg.obj,
                 !.tags.unique_tags_count = Cardinality(m.tags.items.elems),
                 !.folders.top_n = folders_rank[1],
                 !.folders.bottom_n = folders_rank[2],
                 !.tags.top_n = tags_rank[1],
                 !.tags.bottom_n = tags_rank[2]])

\* gather_metrics(tree) on the tree that parse_bookmarks returned.
GatherMetrics ==
    /\ pc = "done"
    /\ metrics' = gather_metrics(result[1], "these")
    /\ pc' = "gathered"
    /\ UNCHANGED <<data, queue, stack, result, error, jsonVars, first,
                   fillVars, rankVars, those, listed, textVars, dataVars>>

NextGather == Next \/ GatherMetrics

SpecGather == Init /\ [][NextGather]_vars

-----------------------------------------------------------------------------
(* The differ: bin/bookmarkos/metrics.py                                   *)
(*                                                                         *)
(* A dict is the sequence of its <<key, value>> entries in the order the   *)
(* keys were put in.                                                       *)

DigitChar(d) ==
    CASE d = 0 -> "0" [] d = 1 -> "1" [] d = 2 -> "2" [] d = 3 -> "3"
      [] d = 4 -> "4" [] d = 5 -> "5" [] d = 6 -> "6" [] d = 7 -> "7"
      [] d = 8 -> "8" [] d = 9 -> "9"

\* '%0<width>d' % value, for a value that is not negative
RECURSIVE Pad(_, _)
Pad(value, width) ==
    IF width = 0 THEN <<>>
    ELSE Append(Pad(value \div 10, width - 1), DigitChar(value % 10))

SecondsPerDay == 86400

\* datetime.fromtimestamp(timestamp, tz=timezone.utc).strftime('%Y-%m-%d'):
\* the day of the timestamp, counted from 1970-01-01, turned into the year,
\* month and day of the proleptic Gregorian calendar.
DateStr(timestamp) ==
    LET days == timestamp \div SecondsPerDay
        z == days + 719468
        era == z \div 146097
        doe == z - era * 146097
        yoe == (doe - doe \div 1460 + doe \div 36524 - doe \div 146096) \div 365
        doy == doe - (365 * yoe + yoe \div 4 - yoe \div 100)
        mp == (5 * doy + 2) \div 153
        day == doy - (153 * mp + 2) \div 5 + 1
        month == IF mp < 10 THEN mp + 3 ELSE mp - 9
        year == yoe + era * 400 + (IF month <= 2 THEN 1 ELSE 0)
    IN  Pad(year, 4) \o <<"-">> \o Pad(month, 2) \o <<"-">> \o Pad(day, 2)

\* sorted(a set of int)
RECURSIVE SortedInts(_)
SortedInts(S) ==
    IF S = {} THEN <<>>
    ELSE LET least == CHOOSE x \in S : \A y \in S : x <= y
         IN  <<least>> \o SortedInts(S \ {least})

\* by_date[key] = [value]: the list of the key replaced, not extended.
SetDefaultReplace(by_date, key, value) ==
    IF CounterHas(by_date, key)
    THEN [i \in 1..Len(by_date) |->
             IF by_date[i][1] = key THEN <<key, <<value>>>> ELSE by_date[i]]
    ELSE Append(by_date, <<key, <<value>>>>)

\* by_date.setdefault(key, []).append(value)
SetDefaultAppend(by_date, key, value) ==
    IF CounterHas(by_date, key)
    THEN [i \in 1..Len(by_date) |->
             IF by_date[i][1] = key
             THEN <<key, Append(by_date[i][2], value)>> ELSE by_date[i]]
    ELSE Append(by_date, <<key, <<value>>>>)

\* The loop of new_bookmarks_by_date over the sorted identifiers.
RECURSIVE ByDateLoop(_, _)
ByDateLoop(by_date, ids) ==
    IF ids = <<>> THEN by_date
    ELSE ByDateLoop(SetDefaultAppend(by_date, DateStr(Head(ids)), Head(ids)),
                    Tail(ids))

\* new_bookmarks_by_date(metrics)
new_bookmarks_by_date(m) ==
    ByDateLoop(<<>>, SortedInts(m.bookmarks.added.elems))

\* by_date[date_str][tag] = 1: a tag seen again is not counted again.
RECURSIVE TagUsageOnce(_, _)
TagUsageOnce(counter, tags) ==
    IF tags = <<>> THEN counter
    ELSE TagUsageOnce(CounterSet(counter, Head(tags), 1), Tail(tags))

\* for tag in bookmark.tags: by_date[date_str][tag] += 1
RECURSIVE TagUsageLoop(_, _)
TagUsageLoop(counter, tags) ==
    IF tags = <<>> THEN counter
    ELSE TagUsageLoop(
             CounterSet(counter, Head(tags), CounterGet(counter, Head(tags)) + 1),
             Tail(tags))

\* The loop of tags_usage_by_date over the new bookmarks.
RECURSIVE TagsByDateLoop(_, _)
TagsByDateLoop(by_date, bookmarks) ==
    IF bookmarks = <<>> THEN by_date
    ELSE LET bookmark == Head(bookmarks)
             date_str == DateStr(bookmark.created)
             opened == IF CounterHas(by_date, date_str) THEN by_date
                       ELSE Append(by_date, <<date_str, <<>>>>)
             counted == [i \in 1..Len(opened) |->
                            IF opened[i][1] = date_str
                            THEN <<date_str,
                                   TagUsageLoop(opened[i][2], bookmark.tags)>>
                            ELSE opened[i]]
         IN  TagsByDateLoop(counted, Tail(bookmarks))

\* tags_usage_by_date(metrics)
tags_usage_by_date(m) == TagsByDateLoop(<<>>, m.bookmarks.new_bookmarks)

\* bookmarks.sort(key=attrgetter('created')): stable
RECURSIVE InsertByCreated(_, _)
InsertByCreated(sorted, x) ==
    IF sorted = <<>> THEN <<x>>
    ELSE IF x.created < Head(sorted).created THEN <<x>> \o sorted
    ELSE <<Head(sorted)>> \o InsertByCreated(Tail(sorted), x)

RECURSIVE SortByCreated(_)
SortByCreated(bookmarks) ==
    IF bookmarks = <<>> THEN <<>>
    ELSE InsertByCreated(SortByCreated(SubSeq(bookmarks, 1, Len(bookmarks) - 1)),
                         bookmarks[Len(bookmarks)])

\* The loop of all_bookmarks_sorted: the deque and the bookmarks found.
RECURSIVE BreadthFirst(_, _)
BreadthFirst(items, bookmarks) ==
    IF items = <<>> THEN bookmarks
    ELSE LET item == Head(items)
         IN  IF item.class = "Bookmark"
             THEN BreadthFirst(Tail(items), Append(bookmarks, item))
             ELSE BreadthFirst(Tail(items) \o item.content, bookmarks)

\* all_bookmarks_sorted without the sort: the bookmarks as the loop found them.
all_bookmarks_unsorted(tree) == BreadthFirst(tree.content, <<>>)

\* all_bookmarks_sorted(data)
all_bookmarks_sorted(tree) == SortByCreated(BreadthFirst(tree.content, <<>>))

\* bisect_left(a, x, key=attrgetter('created')), lo and hi counting from 0
RECURSIVE Bisect(_, _, _, _)
Bisect(a, x, lo, hi) ==
    IF lo >= hi THEN lo
    ELSE LET mid == (lo + hi) \div 2
         IN  IF a[mid + 1].created < x THEN Bisect(a, x, mid + 1, hi)
             ELSE Bisect(a, x, lo, mid)

\* The insertion point after the entries equal to x, not before them.
bisect_right(a, x) == Cardinality({i \in 1..Len(a) : a[i].created <= x})

bisect_left(a, x) == Bisect(a, x, 0, Len(a))

\* The loop of _generate_aggregated_metrics that fills new_bookmarks: the
\* list, or the IndexError of all_bookmarks[pos].
RECURSIVE NewBookmarksLoop(_, _, _)
NewBookmarksLoop(all_bookmarks, ids, new_bookmarks) ==
    IF ids = <<>> THEN Return(new_bookmarks)
    ELSE LET pos == bisect_left(all_bookmarks, Head(ids))
         IN  IF pos >= Len(all_bookmarks)
             THEN Raise("IndexError", "NoSuchBookmark")
             ELSE NewBookmarksLoop(all_bookmarks, Tail(ids),
                                   Append(new_bookmarks, all_bookmarks[pos + 1]))

\* _generate_aggregated_metrics(this_week, metrics): the metrics as it leaves
\* them, or the exception.
_generate_aggregated_metrics(this_week, m) ==
    LET found == NewBookmarksLoop(all_bookmarks_sorted(this_week),
                                  SortedInts(m.bookmarks.added.elems), <<>>)
    IN  IF ~found.ok THEN found
        ELSE LET m1 == [m EXCEPT !.bookmarks.new_bookmarks = found.obj]
                 m2 == [m1 EXCEPT !.bookmarks.new_bookmarks_by_date =
                                      new_bookmarks_by_date(m1)]
             IN  Return([m2 EXCEPT !.tags.tags_by_date = tags_usage_by_date(m2)])

\* current_items.copy() left out: the very object that was given.
SameObject(items) == items

\* current_items.copy(): a new set object with the same elements
Copy(items) == SetObj(<<"copy", items.id>>, items.elems)

\* a - b taking nothing away: a new set object with the elements of a.
DifferenceKeepsAll(a, b) == SetObj(<<"difference", a.id, b.id>>, a.elems)

\* a - b: a new set object
Difference(a, b) == SetObj(<<"difference", a.id, b.id>>, a.elems \ b.elems)

\* delta_pct with the division done whatever previous_count is.
DeltaPctUnguarded(current_count, previous_count) ==
    Float(current_count - previous_count, previous_count)

\* The delta_pct of _calculate_delta_metrics.
DeltaPct(current_count, previous_count) ==
    IF previous_count = 0
    THEN (IF current_count # 0 THEN Float(1, 1) ELSE Float(0, 1))
    ELSE Float(current_count - previous_count, previous_count)

\* deleted computed the other way round.
DeletedSwapped(current_items, previous_items) ==
    IF previous_items # None
    THEN Difference(current_items, previous_items[1])
    ELSE SetObj(<<"set()", current_items.id>>, {})

\* The `deleted` of _calculate_delta_metrics.
Deleted(current_items, previous_items) ==
    IF previous_items # None
    THEN Difference(previous_items[1], current_items)
    ELSE SetObj(<<"set()", current_items.id>>, {})

\* _calculate_delta_metrics: (delta, delta_pct, added, added_count, deleted,
\* deleted_count); previous_items is None or a set object.
_calculate_delta_metrics(current_count, previous_count, current_items, previous_items) ==
    LET delta == current_count - previous_count
        delta_pct == DeltaPct(current_count, previous_count)
        added == IF previous_items # None
                 THEN Difference(current_items, previous_items[1])
                 ELSE Copy(current_items)
        deleted == Deleted(current_items, previous_items)
    IN  <<delta, delta_pct, added, Cardinality(added.elems),
          deleted, Cardinality(deleted.elems)>>

\* The six fields of one of bookmarks, folders, tags assigned from the tuple.
AssignDelta(core, t) ==
    [core EXCEPT !.delta = t[1], !.delta_pct = t[2], !.added = t[3],
                 !.added_count = t[4], !.deleted = t[5], !.deleted_count = t[6]]

\* differentiate_metrics(this_week, these, those): the three objects as the
\* call leaves them, or the exception; `those` is None or a Metrics.
differentiate_metrics(this_week, these, those_) ==
    LET prev_b == IF those_ # None THEN Some(those_[1].bookmarks) ELSE None
        prev_f == IF those_ # None THEN Some(those_[1].folders) ELSE None
        prev_t == IF those_ # None THEN Some(those_[1].tags) ELSE None
        b == _calculate_delta_metrics(
                 these.bookmarks.count,
                 IF prev_b # None THEN prev_b[1].count ELSE 0,
                 these.bookmarks.items,
                 IF prev_b # None THEN Some(prev_b[1].items) ELSE None)
        f == _calculate_delta_metrics(
                 these.folders.count,
                 IF prev_f # None THEN prev_f[1].count ELSE 0,
                 these.folders.items,
                 IF prev_f # None THEN Some(prev_f[1].items) ELSE None)
        t == _calculate_delta_metrics(
                 Cardinality(these.tags.items.elems),
                 IF prev_t # None THEN Cardinality(prev_t[1].items.elems) ELSE 0,
                 these.tags.items,
                 IF prev_t # None THEN Some(prev_t[1].items) ELSE None)
        assigned == [these EXCEPT !.bookmarks = AssignDelta(@, b),
                                  !.folders = AssignDelta(@, f),
                                  !.tags = AssignDelta(@, t)]
        aggregated == _generate_aggregated_metrics(this_week, assigned)
    IN  IF ~aggregated.ok THEN aggregated
        ELSE [ok |-> TRUE, this_week |-> this_week, these |-> aggregated.obj,
              those |-> those_]

\* differentiate_metrics(tree, metrics, those) after gather_metrics.
DifferentiateMetrics ==
    /\ pc = "gathered"
    /\ metrics.ok
    /\ LET d == differentiate_metrics(result[1], metrics.obj, those)
       IN  IF d.ok
           THEN /\ metrics' = Return(d.these)
                /\ those' = d.those
                /\ result' = Some(d.this_week)
                /\ pc' = "differentiated"
                /\ error' = None
           ELSE /\ metrics' = metrics
                /\ those' = those
                /\ result' = result
                /\ pc' = "failed"
                /\ error' = [exc |-> d.exc, kind |-> d.kind,
                             at |-> "differentiate_metrics", folder |-> <<>>]
    /\ UNCHANGED <<data, queue, stack, jsonVars, first, fillVars, rankVars,
                   listed, textVars, dataVars>>

MaxTreeItems == 3

\* A Bookmark and a Folder as the parser leaves them in a tree.
TreeBookmark(created, tags, parent) ==
    SetAttr([NewBookmark EXCEPT !.name = <<"x">>, !.url = <<"u">>,
                                !.created = created, !.updated = created,
                                !.tags = tags],
            "parent", parent)

TreeFolder(name, path, content) ==
    SetAttr([NewFolder EXCEPT !.name = name, !.depth = Len(path),
                              !.content = SortByName(content)],
            "parent", path)

\* Creation times around the ends of days (1969-12-31, 1970-01-01,
\* 1970-01-02, 2024-02-29, 2024-03-01) with tag lists: none, one, several,
\* the empty tag, a tag twice; two bookmarks share a creation time.
BookmarkKinds ==
    {<<0 - 1, <<>>>>,
     <<0, << <<"a">> >> >>,
     <<0, << <<"b">> >> >>,
     <<86399, << <<"a">>, <<"b">> >> >>,
     <<86400, << <<>> >> >>,
     <<1709251199, << <<"b">>, <<"b">> >> >>,
     <<1709251200, << <<"a">> >> >>}

BookmarksAt(parent) == {TreeBookmark(k[1], k[2], parent) : k \in BookmarkKinds}

\* Folders of the root: empty, of one bookmark, of two, holding a folder;
\* two of them have the same name.
FoldersAtRoot ==
    LET path == << <<>> >>
        a == Append(path, <<"a">>)
        b == Append(path, <<"b">>)
    IN  {TreeFolder(<<"a">>, path, <<>>),
         TreeFolder(<<"a">>, path, <<TreeBookmark(0, << <<"a">> >>, a)>>),
         TreeFolder(<<"b">>, path,
                    <<TreeBookmark(86399, << <<"a">>, <<"b">> >>, b),
                      TreeBookmark(0, << <<"b">> >>, b)>>),
         TreeFolder(<<"b">>, path,
                    <<TreeFolder(<<"c">>, b,
                                 <<TreeBookmark(1709251199, << <<"b">> >>,
                                                Append(b, <<"c">>))>>)>>)}

\* The trees given to gather_metrics: a root of at most MaxTreeItems children.
Trees ==
    {TreeFolder(<<>>, <<>>, content) :
        content \in SeqsUpTo(BookmarksAt(<< <<>> >>) \cup FoldersAtRoot,
                             MaxTreeItems)}

\* The trees of the previous snapshot.
PreviousTrees ==
    LET path == << <<>> >>
    IN  {TreeFolder(<<>>, <<>>, <<>>),
         TreeFolder(<<>>, <<>>, <<TreeBookmark(0, << <<"a">> >>, path)>>),
         TreeFolder(<<>>, <<>>,
                    <<TreeBookmark(86400, << <<"c">> >>, path),
                      TreeBookmark(1709251200, << <<"a">> >>, path),
                      TreeFolder(<<"a">>, path, <<>>),
                      TreeFolder(<<"d">>, path, <<>>)>>)}

\* parse_bookmarks has returned a tree; the previous snapshot, if there is
\* one, is the gather_metrics of an earlier tree.
InitMetrics ==
    /\ pc = "done"
    /\ result \in {Some(tree) : tree \in Trees}
    /\ those \in {None} \cup
                 {Some(gather_metrics(tree, "those").obj) : tree \in PreviousTrees}
    /\ metrics = None
    /\ data = <<>>
    /\ queue = <<>>
    /\ stack = <<>>
    /\ error = None
    /\ json = None
    /\ decoded = None
    /\ first = None
    /\ fragment = EmptyMarkup
    /\ filled = None
    /\ sizes = <<>>
    /\ n = 0
    /\ ranked = None
    /\ chars = <<>>
    /\ parsed = None
    /\ listed = None
    /\ given = None
    /\ made = None

NextMetrics == GatherMetrics \/ DifferentiateMetrics

SpecMetrics == InitMetrics /\ [][NextMetrics]_vars

\* differentiate_metrics is given a tree and the Metrics that gather_metrics
\* made of some tree, not always the same one: bookmarks.items then holds
\* creation times below, between and above those of the tree given, or the
\* tree given holds no bookmark.
InitAnyMetrics ==
    /\ pc = "gathered"
    /\ result \in {Some(tree) : tree \in PreviousTrees}
    /\ metrics \in {gather_metrics(tree, "these") : tree \in Trees}
    /\ those = None
    /\ data = <<>>
    /\ queue = <<>>
    /\ stack = <<>>
    /\ error = None
    /\ json = None
    /\ decoded = None
    /\ first = None
    /\ fragment = EmptyMarkup
    /\ filled = None
    /\ sizes = <<>>
    /\ n = 0
    /\ ranked = None
    /\ chars = <<>>
    /\ parsed = None
    /\ listed = None
    /\ given = None
    /\ made = None

SpecAnyMetrics == InitAnyMetrics /\ [][DifferentiateMetrics]_vars

\* A call of all_bookmarks_sorted on the tree that parse_bookmarks returned.
AllBookmarksSorted ==
    /\ pc = "done"
    /\ result # None
    /\ listed = None
    /\ listed' = Some(all_bookmarks_sorted(result[1]))
    /\ UNCHANGED <<parserVars, jsonVars, first, fillVars, rankVars, metrics,
                   those, textVars, dataVars>>

SpecSorted == InitMetrics /\ [][AllBookmarksSorted]_vars

-----------------------------------------------------------------------------
(* The constructors: bin/bookmarkos/data/bookmarks.py *)

\* The keywords given to a constructor: any of name, created, updated and
\* parent, each with one of two values.
Keywords ==
    {[k \in keys |-> CASE k = "name" -> name
                     [] k = "created" -> created
                     [] k = "updated" -> updated
                     [] k = "parent" -> parent] :
        keys \in SUBSET {"name", "created", "updated", "parent"},
        name \in {<<>>, <<"a">>},
        created \in {0, 1641921698},
        updated \in {0, 1641921700},
        parent \in {<<>>, << <<"r">>, <<"b">> >>}}

\* cls(**kwargs) for cls one of Node, Folder, Bookmark: the __init__ that
\* @dataclass makes from the fields declared.
ConstructNode ==
    /\ pc = "construct"
    /\ made' = Construct(CASE given.class = "Node" -> NewNode
                           [] given.class = "Folder" -> NewFolder
                           [] given.class = "Bookmark" -> NewBookmark,
                         given.kwargs)
    /\ pc' = "constructed"
    /\ UNCHANGED <<data, queue, stack, result, error, jsonVars, first,
                   fillVars, rankVars, metricsVars, textVars, given>>

InitConstruct ==
    /\ pc = "construct"
    /\ given \in {[class |-> class, kwargs |-> kwargs] :
                     class \in {"Node", "Folder", "Bookmark"},
                     kwargs \in Keywords}
    /\ made = None
    /\ data = <<>>
    /\ queue = <<>>
    /\ stack = <<>>
    /\ result = None
    /\ error = None
    /\ json = None
    /\ decoded = None
    /\ first = None
    /\ fragment = EmptyMarkup
    /\ filled = None
    /\ sizes = <<>>
    /\ n = 0
    /\ ranked = None
    /\ metrics = None
    /\ those = None
    /\ chars = <<>>
    /\ parsed = None
    /\ listed = None

SpecConstruct == InitConstruct /\ [][ConstructNode]_vars

-----------------------------------------------------------------------------
(* Documents nested about as deep as MAX_NESTING_DEPTH *)

DeepMargin == 1

RECURSIVE Openers(_, _)
\* The declarations and openers of a chain of folders, each one in the one
\* before it, at the depths from..to.
Openers(from, to) ==
    IF from > to THEN <<>>
    ELSE <<FolderLine(<<"b">>, <<"2">>), DlOpen(4 * from)>> \o Openers(from + 1, to)

RECURSIVE Closers(_)
\* The end markers of the folders at depth, depth - 1, ..., 0.
Closers(depth) ==
    IF depth < 0 THEN <<>>
    ELSE <<DlClose(4 * depth)>> \o Closers(depth - 1)

\* What the innermost folder of the chain holds: nothing, a bookmark, a
\* bookmark with notes, an empty line, notes alone, other text.
DeepContents ==
    {<<>>,
     <<BookmarkLine(<<"a">>, <<"u">>, <<"1">>)>>,
     <<BookmarkLine(<<"a">>, <<"u">>, <<"1">>), DdLine(<<"x">>)>>,
     <<Blank>>,
     <<DdLine(<<"x">>)>>,
     <<TextLine>>}

\* A chain of folders down to a depth within DeepMargin of
\* MAX_NESTING_DEPTH, with all its end markers or cut off before them.
DeepDocuments ==
    {Header \o <<DlOpen(0)>> \o Openers(1, depth) \o inner
            \o (IF closed THEN Closers(depth) ELSE <<>>) :
        depth \in (MAX_NESTING_DEPTH - DeepMargin)..(MAX_NESTING_DEPTH + DeepMargin),
        inner \in DeepContents,
        closed \in BOOLEAN}

InitDeep ==
    /\ pc = "start"
    /\ data \in DeepDocuments
    /\ queue = <<>>
    /\ stack = <<>>
    /\ result = None
    /\ error = None
    /\ json = None
    /\ decoded = None
    /\ first = None
    /\ fragment = EmptyMarkup
    /\ filled = None
    /\ sizes = <<>>
    /\ n = 0
    /\ ranked = None
    /\ metrics = None
    /\ those = None
    /\ chars = <<>>
    /\ parsed = None
    /\ listed = None
    /\ given = None
    /\ made = None

SpecDeep == InitDeep /\ [][Next]_vars

-----------------------------------------------------------------------------
(* Documents with notes *)

MaxNotesLines == 4

\* Lines for <DD>: notes of two texts, empty notes, <DD> with no blank
\* before it, between bookmarks, a folder and the lines that open and close.
NotesLines ==
    {DlClose(0), DlClose(4), DlOpen(4), Blank,
     BookmarkLine(<<"a">>, <<"u">>, <<"1">>), FolderLine(<<"b">>, <<"2">>),
     DdLine(<<"x">>), DdLine(<<"v">>), DdLine(<<>>),
     Line("DD", 0, EmptyMarkup, <<"x">>)}

InitNotes == InitParser(NotesLines, MaxNotesLines)

SpecNotes == InitNotes /\ [][Next]_vars

-----------------------------------------------------------------------------
(* parse_fragment on the characters of a fragment:                         *)
(* bin/bookmarkos/data/bookmarks.py                                        *)
(*                                                                         *)
(* A fragment is one line of text, so it holds no newline and `.` matches  *)
(* each of its characters.                                                 *)

\* The characters \w and \s match, among those the fragments are made of.
WordChars == Digits \cup {"A", "B", "K", "k", "t", "_"}
SpaceChars == {" "}

\* The end of the longest run of characters of a class that starts at i
\* (i - 1 when there is none), and the start of the longest that ends at j
\* (j + 1 when there is none).
RECURSIVE RunEnd(_, _, _)
RunEnd(s, i, class) ==
    IF i <= Len(s) /\ s[i] \in class THEN RunEnd(s, i + 1, class) ELSE i - 1

RECURSIVE RunStart(_, _, _)
RunStart(s, j, class) ==
    IF j >= 1 /\ s[j] \in class THEN RunStart(s, j - 1, class) ELSE j + 1

\* EXTRACTION_RE.fullmatch(content) for ^<\w+\s+(.*?)>(.*)</\w+>$: None, or
\* the groups (attr, text). The name after < is the whole run of word
\* characters and at least one blank follows it; the closing tag is the one
\* the content ends with; group 1 is lazy, so it ends at the first > after
\* the blanks that leaves room for the closing tag.
EXTRACTION_RE_fullmatch(content) ==
    LET length == Len(content)
        name_end == RunEnd(content, 2, WordChars)
        blank_end == RunEnd(content, name_end + 1, SpaceChars)
        closing == RunStart(content, length - 1, WordChars)
        ends == {p \in (blank_end + 1)..(closing - 3) : content[p] = ">"}
    IN  IF /\ length >= 1
           /\ content[1] = "<"
           /\ name_end >= 2
           /\ blank_end >= name_end + 1
           /\ content[length] = ">"
           /\ closing <= length - 1
           /\ closing >= 3
           /\ content[closing - 1] = "/"
           /\ content[closing - 2] = "<"
           /\ ends # {}
        THEN LET end == CHOOSE p \in ends : \A q \in ends : p <= q
             IN  Some(<<SubSeq(content, blank_end + 1, end - 1),
                        SubSeq(content, end + 1, closing - 3)>>)
        ELSE None

\* ATTRIB_RE.findall(attr) from position i on, for (\w+)="(.*?)": the
\* matches from left to right, none overlapping another; the value is lazy
\* and ends at the next double quote.
RECURSIVE ATTRIB_RE_findall(_, _)
ATTRIB_RE_findall(attr, i) ==
    IF i > Len(attr) THEN <<>>
    ELSE LET key_end == RunEnd(attr, i, WordChars)
             quotes == {q \in (key_end + 3)..Len(attr) : attr[q] = "\""}
         IN  IF /\ key_end >= i
                /\ key_end + 2 <= Len(attr)
                /\ attr[key_end + 1] = "="
                /\ attr[key_end + 2] = "\""
                /\ quotes # {}
             THEN LET quote == CHOOSE q \in quotes : \A r \in quotes : q <= r
                  IN  << <<SubSeq(attr, i, key_end),
                           SubSeq(attr, key_end + 3, quote - 1)>> >>
                      \o ATTRIB_RE_findall(attr, quote + 1)
             ELSE ATTRIB_RE_findall(attr, i + 1)

\* parse_fragment(content) on a str: (text, attrib) or the ValueError; attrib
\* is the dict filled pair by pair, a key met again taking the new value.
parse_fragment_str(content) ==
    LET match == EXTRACTION_RE_fullmatch(content)
        RECURSIVE FillDict(_, _)
        FillDict(attrib, pairs) ==
            IF pairs = <<>> THEN attrib
            ELSE FillDict(CounterSet(attrib, Head(pairs)[1], Head(pairs)[2]),
                          Tail(pairs))
    IN  IF match = None THEN Raise("ValueError", "ParseError")
        ELSE Return([text |-> match[1][2],
                     attrib |-> FillDict(<<>>,
                                         ATTRIB_RE_findall(match[1][1], 1))])

\* A call of parse_fragment(chars).
ParseFragment ==
    /\ pc = "fragment"
    /\ parsed' = parse_fragment_str(chars)
    /\ pc' = "parsed"
    /\ UNCHANGED <<data, queue, stack, result, error, jsonVars, first,
                   fillVars, rankVars, metricsVars, chars, dataVars>>

MaxAttrs == 2

\* What stands between the blanks and the > of an opening tag: pairs with
\* keys that differ in case only, a key twice, a value without quotes and a
\* value holding a >.
AttrPieces ==
    {<<"k", "=", "\"", "1", "\"">>,
     <<"K", "=", "\"", "2", "\"">>,
     <<"k", "=", "\"", "3", "\"">>,
     <<"k", "=", "4">>,
     <<"k", "=", "\"", ">", "\"">>}

\* The fragments: a tag opener or what is left of it, blanks or none, at
\* most MaxAttrs attribute pieces one blank apart, the > or none, a text,
\* and a closing tag or what is left of it.
FragmentTexts ==
    LET RECURSIVE JoinBlank(_)
        JoinBlank(pieces) ==
            IF pieces = <<>> THEN <<>>
            ELSE IF Len(pieces) = 1 THEN pieces[1]
            ELSE pieces[1] \o <<" ">> \o JoinBlank(Tail(pieces))
        openers == {<<"<", "A">>, <<"A">>, <<"<">>}
        blanks == {<<>>, <<" ">>, <<" ", " ">>}
        closers == {<<">">>, <<>>}
        texts == {<<>>, <<"t">>}
        closings == {<<"<", "/", "A", ">">>, <<"<", "/", "A">>,
                     <<"<", "/", "B", ">">>, <<>>}
    IN  {o \o b \o JoinBlank(a) \o c \o t \o e :
            o \in openers, b \in blanks, a \in SeqsUpTo(AttrPieces, MaxAttrs),
            c \in closers, t \in texts, e \in closings}

InitFragment ==
    /\ pc = "fragment"
    /\ chars \in FragmentTexts
    /\ parsed = None
    /\ listed = None
    /\ given = None
    /\ made = None
    /\ data = <<>>
    /\ queue = <<>>
    /\ stack = <<>>
    /\ result = None
    /\ error = None
    /\ json = None
    /\ decoded = None
    /\ first = None
    /\ fragment = EmptyMarkup
    /\ filled = None
    /\ sizes = <<>>
    /\ n = 0
    /\ ranked = None
    /\ metrics = None
    /\ those = None

SpecFragment == InitFragment /\ [][ParseFragment]_vars

-----------------------------------------------------------------------------
(* Properties of the parser *)

\* The lines of the body that the call has taken from the queue so far.
Body == SubSeq(data, HEADER_LINES + 2, Len(data))
Consumed == SubSeq(Body, 1, Len(Body) - Len(queue))

RECURSIVE FoldersOf(_)
\* A folder and all the folders below it.
FoldersOf(folder) ==
    {folder} \cup UNION {FoldersOf(folder.content[i]) :
                            i \in {j \in 1..Len(folder.content) :
                                      folder.content[j].class = "Folder"}}

NamesAscend(content) ==
    \A i, j \in 1..Len(content) :
        i < j => ~StrLess(content[j].name, content[i].name)

\* `after` holds the elements of `before`, ordered by non-decreasing name,
\* those of equal name in the order they have in `before`.
IsStableSortOf(after, before) ==
    /\ Len(after) = Len(before)
    /\ NamesAscend(after)
    /\ \E p \in [1..Len(after) -> 1..Len(after)] :
          /\ \A i, j \in 1..Len(after) : i # j => p[i] # p[j]
          /\ \A i \in 1..Len(after) : after[i] = before[p[i]]
          /\ \A i, j \in 1..Len(after) :
                (i < j /\ after[i].name = after[j].name) => p[i] < p[j]

\* A step in which the innermost process_folder call returns its Folder.
FolderReturns == pc = "folder" /\ Len(stack') < Len(stack)

\* The Folder returned in such a step.
Returned ==
    IF Len(stack) = 1 THEN result'[1]
    ELSE LET outer == stack'[Len(stack')].folder.content
         IN  outer[Len(outer)]

\* C1: in every tree returned by parse_bookmarks every Folder at every depth
\* has its content in non-decreasing order of name, and whenever a
\* process_folder call returns, the content of its Folder is the content in
\* the order the <DT> lines appended it, sorted by name with children of
\* equal name left in that order.
C1_ContentSortedStable ==
    /\ [](pc = "done" => \A f \in FoldersOf(result[1]) : NamesAscend(f.content))
    /\ [][FolderReturns =>
            IsStableSortOf(Returned.content, Top.folder.content)]_vars

\* C1 witness: a returned tree whose root has three children, two of the
\* same name and different, from a document that names "b" first.
C1_Witness ==
    /\ pc = "done"
    /\ Len(result[1].content) >= 3
    /\ \E i, j \in 1..Len(result[1].content) :
          /\ i < j
          /\ result[1].content[i].name = result[1].content[j].name
          /\ result[1].content[i] # result[1].content[j]
    /\ Body[1].markup.text = <<"b">>
    /\ result[1].content[1].name = <<"a">>

\* C2 (as claimed): a process_folder call returns its Folder only in the
\* step that takes that folder's end marker, </DL><p> after four blanks per
\* level, from the queue; so parse_bookmarks returns a tree only for a
\* document whose body holds the root's end marker, and an unterminated
\* folder gives the error and no tree.
C2_NoTreeForUnterminatedRoot ==
    /\ [](pc = "done" => \E i \in 1..Len(Body) : IsEndMarker(Body[i], 0))
    /\ [][FolderReturns =>
            (queue # <<>> /\ IsEndMarker(Head(queue), Top.depth))]_vars

\* C3 (as claimed): while a folder opened by an <H3> declaration is being
\* parsed and the line taken last is its opener, that opener is indented by
\* exactly four blanks per level of the folder.
C3_OpenerExactlyIndented ==
    (/\ pc = "folder"
     /\ Len(stack) >= 2
     /\ Consumed[Len(Consumed)].kind = "DL_OPEN")
        => Consumed[Len(Consumed)].indent = 4 * Top.depth

\* Whether a fragment's attribute block has the key, and the value of its
\* last occurrence there.
HasAttr(markup, key) == \E i \in 1..Len(markup.attrs) : markup.attrs[i][1] = key

AttrValue(markup, key) ==
    LET last == CHOOSE i \in 1..Len(markup.attrs) :
                    /\ markup.attrs[i][1] = key
                    /\ \A j \in 1..Len(markup.attrs) :
                          markup.attrs[j][1] = key => j <= i
    IN  markup.attrs[last][2]

RECURSIVE JoinCommaSpace(_)
\* ', '.join(pieces)
JoinCommaSpace(pieces) ==
    IF Len(pieces) = 1 THEN pieces[1]
    ELSE pieces[1] \o <<",", " ">> \o JoinCommaSpace(Tail(pieces))

HasCommaSpace(s) == \E i \in 1..(Len(s) - 1) : s[i] = "," /\ s[i + 1] = " "

\* C4: when Bookmark.fill succeeds on a fragment without TAGS or with
\* TAGS="", tags is the one-element sequence of the empty string; otherwise
\* tags are the pieces of the TAGS value between its comma-space separators,
\* in order: no piece holds a separator, and the pieces joined by the
\* separator give the value back.
C4_TagsSplit ==
    (pc = "filled" /\ filled.ok) =>
        LET value == IF HasAttr(fragment, "TAGS")
                     THEN AttrValue(fragment, "TAGS") ELSE <<>>
            tags == filled.obj.tags
        IN  /\ value = <<>> => tags = << <<>> >>
            /\ Len(tags) >= 1
            /\ \A i \in 1..Len(tags) : ~HasCommaSpace(tags[i])
            /\ JoinCommaSpace(tags) = value

\* C4 witness: a fill that succeeded without a TAGS attribute.
C4_Witness ==
    /\ pc = "filled"
    /\ filled.ok
    /\ ~HasAttr(fragment, "TAGS")
    /\ filled.obj.tags = << <<>> >>

\* A step of process_dt on a <DT> line that matches and holds an A fragment.
DtOnBookmark ==
    /\ pc = "folder"
    /\ queue # <<>>
    /\ DtMatches(Head(queue))
    /\ Head(queue).markup.tag = "A"
    /\ Len(Top.parent) <= MAX_NESTING_DEPTH
    /\ queue' = Tail(queue)

RequiredOk(markup) ==
    /\ HasAttr(markup, "HREF")
    /\ HasAttr(markup, "ADD_DATE") /\ IsInt(AttrValue(markup, "ADD_DATE"))
    /\ HasAttr(markup, "LAST_MODIFIED")
    /\ IsInt(AttrValue(markup, "LAST_MODIFIED"))

\* C5: process_dt on an A fragment fails and leaves every open folder's
\* content as it was when HREF, ADD_DATE or LAST_MODIFIED is absent or one of
\* the two dates is not an integer; with the three there and valid and no
\* LAST_VISIT it appends one Bookmark, whose visited is None, to the current
\* folder.
C5_RequiredAttributes ==
    [][DtOnBookmark =>
        LET markup == Head(queue).markup
            content == Top.folder.content
            after == stack'[Len(stack')].folder.content
        IN  /\ ~RequiredOk(markup) =>
                 /\ pc' = "failed"
                 /\ error'.kind \in {"MissingField", "InvalidTimestamp", "ParseError"}
                 /\ stack' = stack
                 /\ result' = None
            /\ (RequiredOk(markup) /\ markup.close
                    /\ ~HasAttr(markup, "LAST_VISIT")) =>
                 /\ pc' = "folder"
                 /\ Len(stack') = Len(stack)
                 /\ Len(after) = Len(content) + 1
                 /\ SubSeq(after, 1, Len(content)) = content
                 /\ after[Len(after)].class = "Bookmark"
                 /\ after[Len(after)].visited = None]_vars

\* C5 witness: a bookmark is in the root folder, and the next fragment has
\* failed for its missing attribute, the content being that one bookmark.
C5_Witness ==
    /\ pc = "failed"
    /\ error.exc = "KeyError"
    /\ Len(stack) = 1
    /\ Len(stack[1].folder.content) = 1
    /\ stack[1].folder.content[1].visited = None
    /\ ~HasAttr(Consumed[Len(Consumed)].markup, "HREF")

\* C6 (as claimed): the tree read back from the JSON written for a parsed
\* tree is that tree: reading succeeds and gives the same folders and
\* bookmarks with the same value in every field.
C6_JsonRoundTrip ==
    pc = "read" => (decoded.ok /\ decoded.obj = result[1])

RECURSIVE WellPlaced(_, _)
WellPlaced(folder, path) ==
    /\ folder.parent = path
    /\ folder.depth = Len(path)
    /\ \A i \in 1..Len(folder.content) :
          LET child == folder.content[i]
          IN  /\ child.parent = Append(path, folder.name)
              /\ child.class = "Folder" =>
                    /\ child.depth = folder.depth + 1
                    /\ WellPlaced(child, Append(path, folder.name))

\* C20: in every tree returned by parse_bookmarks the root has depth 0 and
\* parent [], every other node's parent is the names of its ancestors from
\* the root down (the root's being the empty string), and every folder's
\* depth is the length of its parent, one more than that of the folder
\* holding it.
C20_ParentPaths ==
    pc = "done" =>
        /\ result[1].depth = 0
        /\ result[1].parent = <<>>
        /\ result[1].name = <<>>
        /\ WellPlaced(result[1], <<>>)

\* C20 witness: a returned tree with a bookmark inside a folder b of the
\* root, its parent being the root's name and b.
C20_Witness ==
    /\ pc = "done"
    /\ \E i \in 1..Len(result[1].content) :
          LET child == result[1].content[i]
          IN  /\ child.class = "Folder"
              /\ child.depth = 1
              /\ child.content # <<>>
              /\ child.content[1].class = "Bookmark"
              /\ child.content[1].parent = << <<>>, <<"b">> >>

-----------------------------------------------------------------------------
(* Properties of the rank aggregator *)

Largest == ranked[1][1]
Smallest == ranked[1][2]

Entries == 1..Len(sizes)
SizesIn == {sizes[i][2] : i \in Entries}
NamesOfSize(size) == {sizes[i][1] : i \in {j \in Entries : sizes[j][2] = size}}
\* The number of names in the tie groups of a set of sizes.
NamesIn(S) == Cardinality({i \in Entries : sizes[i][2] \in S})
GroupSizes(list) == {list[i][2] : i \in 1..Len(list)}

GroupRight(group) ==
    /\ group[1] = 1 + Cardinality({i \in Entries : sizes[i][2] > group[2]})
    /\ {group[3][i] : i \in 1..Len(group[3])} = NamesOfSize(group[2])
    /\ group[3] # <<>>
    /\ \A i, j \in 1..Len(group[3]) : i < j => StrLess(group[3][i], group[3][j])

ListRight(list) ==
    /\ \A i \in 1..Len(list) : GroupRight(list[i])
    /\ \A i, j \in 1..Len(list) : i # j => list[i][2] # list[j][2]

C9_TopPrefix ==
    pc = "ranked" =>
        LET T == GroupSizes(Largest)
        IN  /\ \A i, j \in 1..Len(Largest) : i < j => Largest[i][2] > Largest[j][2]
            /\ T \subseteq SizesIn
            /\ \A t \in T : \A v \in SizesIn : v > t => v \in T
            /\ IF NamesIn(SizesIn) < n THEN T = SizesIn
               ELSE /\ NamesIn(T) >= n
                    /\ \A t \in T : (\A v \in T : t <= v) => NamesIn(T \ {t}) < n

\* C9 witness: the last group of the top list is a tie that takes the list
\* past n names, and groups are left out.
C9_Witness ==
    /\ pc = "ranked"
    /\ Len(Largest) = 2
    /\ NamesIn(GroupSizes(Largest)) > n
    /\ GroupSizes(Largest) # SizesIn

\* C10: the bottom list holds the tie groups from the smallest size up, as
\* few of them as give n names or more, or all of them when there are fewer
\* than n names, and it lists them by ascending rank, the greatest size
\* first.
C10_BottomSuffix ==
    pc = "ranked" =>
        LET B == GroupSizes(Smallest)
        IN  /\ \A i, j \in 1..Len(Smallest) :
                  i < j => /\ Smallest[i][2] >= Smallest[j][2]
                           /\ Smallest[i][1] < Smallest[j][1]
            /\ B \subseteq SizesIn
            /\ \A b \in B : \A v \in SizesIn : v < b => v \in B
            /\ IF NamesIn(SizesIn) < n THEN B = SizesIn
               ELSE /\ NamesIn(B) >= n
                    /\ \A b \in B : (\A v \in B : b >= v) => NamesIn(B \ {b}) < n

\* C10 witness: a bottom list of two groups, the last taken being a tie that
\* takes it past n names, with a group of greater size left out.
C10_Witness ==
    /\ pc = "ranked"
    /\ Len(Smallest) = 2
    /\ Len(Smallest[1][3]) = 2
    /\ NamesIn(GroupSizes(Smallest)) > n
    /\ GroupSizes(Smallest) # SizesIn

-----------------------------------------------------------------------------
(* Properties of the metrics *)

\* The folders of a tree, the root included; its bookmarks at any depth; and
\* the greatest nesting level of a folder, the root being at `level`.
RECURSIVE NumFolders(_)
NumFolders(folder) ==
    LET RECURSIVE Sum(_)
        Sum(content) ==
            IF content = <<>> THEN 0
            ELSE (IF Head(content).class = "Folder"
                  THEN NumFolders(Head(content)) ELSE 0) + Sum(Tail(content))
    IN  1 + Sum(folder.content)

RECURSIVE NumBookmarks(_)
NumBookmarks(folder) ==
    LET RECURSIVE Sum(_)
        Sum(content) ==
            IF content = <<>> THEN 0
            ELSE (IF Head(content).class = "Folder"
                  THEN NumBookmarks(Head(content)) ELSE 1) + Sum(Tail(content))
    IN  Sum(folder.content)

RECURSIVE Deepest(_, _)
Deepest(folder, level) ==
    LET below == {Deepest(folder.content[i], level + 1) :
                     i \in {j \in 1..Len(folder.content) :
                               folder.content[j].class = "Folder"}}
    IN  IF below = {} THEN level
        ELSE CHOOSE d \in below : \A e \in below : e <= d

Categories == {"bookmarks", "folders", "tags"}

BasisCount(snapshot, category) ==
    IF snapshot = None THEN 0
    ELSE IF category = "tags"
         THEN Cardinality(snapshot[1].tags.items.elems)
         ELSE snapshot[1][category].count

\* The float f is the quotient num / den.
IsQuotient(f, num, den) ==
    /\ f.den # 0
    /\ den # 0
    /\ f.num * den = num * f.den

\* C11: after differentiate_metrics, delta is the current count minus the
\* previous count (unique tags for tags, 0 without a previous snapshot), and
\* delta_pct is 1.0 when the previous count is 0 and the current one is not,
\* 0.0 when both are 0, and delta / previous count otherwise; it is never the
\* result of a division by zero.
C11_DeltaAndPct ==
    pc = "differentiated" =>
        \A category \in Categories :
            LET core == metrics.obj[category]
                current == BasisCount(Some(metrics.obj), category)
                previous == BasisCount(those, category)
            IN  /\ core.delta = current - previous
                /\ core.delta_pct.den # 0
                /\ (previous = 0 /\ current # 0) =>
                       IsQuotient(core.delta_pct, 1, 1)
                /\ (previous = 0 /\ current = 0) =>
                       IsQuotient(core.delta_pct, 0, 1)
                /\ previous # 0 =>
                       IsQuotient(core.delta_pct, core.delta, previous)

\* C11 witness: a differentiated snapshot showing each of the three cases: no
\* tags before and none now, no bookmarks before and some now, and three
\* folders where there was one.
C11_Witness ==
    /\ pc = "differentiated"
    /\ those # None
    /\ BasisCount(those, "tags") = 0
    /\ BasisCount(Some(metrics.obj), "tags") = 0
    /\ those[1].bookmarks.count = 0
    /\ metrics.obj.bookmarks.count > 0
    /\ metrics.obj.bookmarks.delta_pct = Float(1, 1)
    /\ metrics.obj.tags.delta_pct = Float(0, 1)
    /\ those[1].folders.count = 1
    /\ metrics.obj.folders.count = 3
    /\ IsQuotient(metrics.obj.folders.delta_pct, 2, 1)

\* The items of a category in a snapshot; none without a snapshot.
ItemsOf(snapshot, category) ==
    IF snapshot = None THEN {} ELSE snapshot[1][category].items.elems

DeltaFields ==
    {"delta", "delta_pct", "added", "added_count", "deleted", "deleted_count",
     "new_bookmarks", "new_bookmarks_by_date", "tags_by_date"}

DifferentiateReturns == pc = "gathered" /\ pc' = "differentiated"

\* C13: a call of differentiate_metrics(tree, these, those) leaves `those`
\* and the tree as they were, and in `these` every field other than the
\* delta-related ones (count, items as the same object, sizes, min_size,
\* max_size, avg_size, top_n, bottom_n, max_depth, unique_tags_count) keeps
\* its value; the added set is never the object that items is.
C13_FrameOfDiffer ==
    [][DifferentiateReturns =>
          /\ those' = those
          /\ result' = result
          /\ DOMAIN metrics'.obj = DOMAIN metrics.obj
          /\ \A category \in Categories :
                 LET before == metrics.obj[category]
                     after == metrics'.obj[category]
                 IN  /\ DOMAIN after = DOMAIN before
                     /\ \A field \in (DOMAIN before) \ DeltaFields :
                            after[field] = before[field]
                     /\ after.added.id # after.items.id]_vars

\* C13 witness: without a previous snapshot every item is an added one, in a
\* set of its own, and the sizes and the ranking of the folders are in place.
C13_Witness ==
    /\ pc = "differentiated"
    /\ those = None
    /\ metrics.obj.bookmarks.items.elems # {}
    /\ metrics.obj.bookmarks.added.elems = metrics.obj.bookmarks.items.elems
    /\ metrics.obj.bookmarks.added.id # metrics.obj.bookmarks.items.id
    /\ metrics.obj.folders.top_n # <<>>
    /\ Len(metrics.obj.folders.sizes) > 1

\* The folders of a tree, each with the path gather_metrics walks to it (the
\* root at the path of the one name ''), and the direct bookmarks of one.
RECURSIVE PlacedFolders(_, _)
PlacedFolders(folder, path) ==
    {<<path, folder>>} \cup
    UNION {PlacedFolders(folder.content[i], path \o <<folder.content[i].name>>) :
              i \in {j \in 1..Len(folder.content) :
                        folder.content[j].class = "Folder"}}

DirectBookmarks(folder) ==
    Cardinality({i \in 1..Len(folder.content) :
                    folder.content[i].class = "Bookmark"})

\* The groups of the folders ranking, largest and smallest together.
FolderGroups(m) ==
    {m.folders.top_n[i] : i \in 1..Len(m.folders.top_n)} \cup
    {m.folders.bottom_n[i] : i \in 1..Len(m.folders.bottom_n)}

\* C15: for every folder of the tree given to gather_metrics,
\* folders.sizes[path] is the number of its direct children, and the folders
\* ranking lists its path under the number of its own direct bookmarks.
C15_PerFolderSizes ==
    pc = "gathered" =>
        \A placed \in PlacedFolders(result[1], << <<>> >>) :
            LET folder_id == JoinPath(placed[1])
                folder == placed[2]
            IN  /\ CounterHas(metrics.obj.folders.sizes, folder_id)
                /\ CounterGet(metrics.obj.folders.sizes, folder_id) =
                       Len(folder.content)
                /\ \E group \in FolderGroups(metrics.obj) :
                       /\ group[2] = DirectBookmarks(folder)
                       /\ \E i \in 1..Len(group[3]) : group[3][i] = folder_id

\* C16: gather_metrics on a tree without bookmarks, where the histogram of
\* the tags is empty, fails with the division-by-zero error of average_size
\* and returns no Metrics.
C16_EmptyAverageFails ==
    (pc = "gathered" /\ NumBookmarks(result[1]) = 0) =>
        /\ ~metrics.ok
        /\ metrics.exc = "ZeroDivisionError"

\* A key YYYY-MM-DD read back: the number of its day counted from
\* 1970-01-01 in the proleptic Gregorian calendar.
NumberAt(key, from, to) ==
    LET RECURSIVE Value(_)
        Value(i) == IF i < from THEN 0
                    ELSE 10 * Value(i - 1) + DigitVal(key[i])
    IN  Value(to)

IsDateKey(key) ==
    /\ Len(key) = 10
    /\ key[5] = "-"
    /\ key[8] = "-"
    /\ \A i \in {1, 2, 3, 4, 6, 7, 9, 10} : key[i] \in Digits
    /\ NumberAt(key, 6, 7) \in 1..12
    /\ NumberAt(key, 9, 10) \in 1..31

DayOfKey(key) ==
    LET month == NumberAt(key, 6, 7)
        day == NumberAt(key, 9, 10)
        year == NumberAt(key, 1, 4) - (IF month <= 2 THEN 1 ELSE 0)
        era == year \div 400
        yoe == year - era * 400
        mp == IF month > 2 THEN month - 3 ELSE month + 9
        doy == (153 * mp + 2) \div 5 + day - 1
        doe == yoe * 365 + yoe \div 4 - yoe \div 100 + doy
    IN  era * 146097 + doe - 719468

\* The timestamp lies in the UTC day the key names.
OnDate(key, timestamp) ==
    /\ IsDateKey(key)
    /\ 86400 * DayOfKey(key) <= timestamp
    /\ timestamp < 86400 * DayOfKey(key) + 86400

\* C17: bookmarks.new_bookmarks_by_date partitions bookmarks.added by UTC
\* date: every added timestamp is in exactly one place, in the list of the
\* key that names its day; every list is strictly ascending and none is
\* empty; no key occurs twice.
C17_ByDatePartition ==
    pc = "differentiated" =>
        LET by_date == metrics.obj.bookmarks.new_bookmarks_by_date
            added == metrics.obj.bookmarks.added.elems
            Places(timestamp) ==
                {<<i, k>> \in (1..Len(by_date)) \X (1..Cardinality(added)) :
                    k <= Len(by_date[i][2]) /\ by_date[i][2][k] = timestamp}
        IN  /\ \A i, j \in 1..Len(by_date) :
                   by_date[i][1] = by_date[j][1] => i = j
            /\ \A i \in 1..Len(by_date) :
                   LET ids == by_date[i][2]
                   IN  /\ ids # <<>>
                       /\ Len(ids) <= Cardinality(added)
                       /\ \A k \in 1..Len(ids) :
                              /\ ids[k] \in added
                              /\ OnDate(by_date[i][1], ids[k])
                              /\ k > 1 => ids[k - 1] < ids[k]
            /\ \A timestamp \in added : Cardinality(Places(timestamp)) = 1
            /\ added = {} => by_date = <<>>

\* C17 witness: three added bookmarks, the last second of 1969 under its own
\* date and the first and the last second of 1970-01-01 in one list.
C17_Witness ==
    /\ pc = "differentiated"
    /\ metrics.obj.bookmarks.added.elems = {0 - 1, 0, 86399}
    /\ metrics.obj.bookmarks.new_bookmarks_by_date =
           << <<<<"1", "9", "6", "9", "-", "1", "2", "-", "3", "1">>,
                <<0 - 1>> >>,
              <<<<"1", "9", "7", "0", "-", "0", "1", "-", "0", "1">>,
                <<0, 86399>> >> >>

\* The uses of a tag by the new bookmarks created on the day a key names:
\* the places <<bookmark, position in its tag list>> where the tag stands.
UsesOn(new_bookmarks, key, tag) ==
    UNION {{<<k, t>> : t \in {u \in 1..Len(new_bookmarks[k].tags) :
                                  new_bookmarks[k].tags[u] = tag}} :
              k \in {j \in 1..Len(new_bookmarks) :
                        OnDate(key, new_bookmarks[j].created)}}

\* C18: tags.tags_by_date has exactly one key for each UTC date on which a
\* bookmark of bookmarks.new_bookmarks was created, with or without tags,
\* and under it every tag counts as many times as it stands in the tag lists
\* of the new bookmarks of that date, and no other tag counts at all.
C18_TagsByDate ==
    pc = "differentiated" =>
        LET tags_by_date == metrics.obj.tags.tags_by_date
            new_bookmarks == metrics.obj.bookmarks.new_bookmarks
            Keys == 1..Len(tags_by_date)
        IN  /\ \A i, j \in Keys : tags_by_date[i][1] = tags_by_date[j][1] => i = j
            /\ \A k \in 1..Len(new_bookmarks) :
                   \E i \in Keys :
                       OnDate(tags_by_date[i][1], new_bookmarks[k].created)
            /\ \A i \in Keys :
                   LET key == tags_by_date[i][1]
                       counter == tags_by_date[i][2]
                   IN  /\ \E k \in 1..Len(new_bookmarks) :
                              OnDate(key, new_bookmarks[k].created)
                       /\ \A a, b \in 1..Len(counter) :
                              counter[a][1] = counter[b][1] => a = b
                       /\ \A a \in 1..Len(counter) :
                              counter[a][2] =
                                  Cardinality(UsesOn(new_bookmarks, key,
                                                     counter[a][1]))
                       /\ \A tag \in metrics.obj.tags.items.elems :
                              CounterGet(counter, tag) =
                                  Cardinality(UsesOn(new_bookmarks, key, tag))

\* C18 witness: a new bookmark without tags gives its date an empty counter,
\* and a new bookmark naming one tag twice gives it the count 2.
C18_Witness ==
    /\ pc = "differentiated"
    /\ metrics.obj.tags.tags_by_date =
           << <<<<"1", "9", "6", "9", "-", "1", "2", "-", "3", "1">>, <<>> >>,
              <<<<"2", "0", "2", "4", "-", "0", "2", "-", "2", "9">>,
                << <<<<"b">>, 2>> >> >> >>

-----------------------------------------------------------------------------
(* Properties of parse_fragment *)

\* The three parts a fragment may lack: the opening tag (< and a name), the
\* closing tag it ends with (</, a name, >), and a > that closes the opening
\* tag, somewhere after its name and before the closing tag.
HasOpeningTag(s) == Len(s) >= 2 /\ s[1] = "<" /\ s[2] \in WordChars

HasClosingTag(s) ==
    LET name == RunStart(s, Len(s) - 1, WordChars)
    IN  /\ Len(s) >= 4
        /\ s[Len(s)] = ">"
        /\ name <= Len(s) - 1
        /\ name >= 3
        /\ s[name - 1] = "/"
        /\ s[name - 2] = "<"

HasOpeningEnd(s) ==
    \E p \in (RunEnd(s, 2, WordChars) + 1)..
             (RunStart(s, Len(s) - 1, WordChars) - 3) : s[p] = ">"

\* C19: parse_fragment fails, with ParseError, exactly when the fragment
\* lacks the opening tag, the > closing the opening tag, or the final
\* closing tag; otherwise it returns the text and the attributes.
C19_FailsExactlyWhenPartMissing ==
    pc = "parsed" =>
        LET complete == /\ HasOpeningTag(chars)
                        /\ HasOpeningEnd(chars)
                        /\ HasClosingTag(chars)
        IN  /\ complete => parsed.ok
            /\ ~complete => (~parsed.ok /\ parsed.kind = "ParseError")

-----------------------------------------------------------------------------
(* Further properties of the metrics *)

C22_InitialAddedCount ==
    (pc = "differentiated" /\ those = None) =>
        metrics.obj.bookmarks.added_count = metrics.obj.bookmarks.count

\* The bookmarks of a tree, at any depth.
RECURSIVE BookmarksOf(_)
BookmarksOf(folder) ==
    UNION {IF folder.content[i].class = "Bookmark"
           THEN {folder.content[i]}
           ELSE BookmarksOf(folder.content[i]) : i \in 1..Len(folder.content)}

\* C26: after differentiate_metrics on a snapshot gathered from the same
\* tree, bookmarks.new_bookmarks has one entry for each identifier of
\* bookmarks.added and no other, in ascending order of the identifiers, and
\* the entry of an identifier is a bookmark of the tree, at whatever depth,
\* created at that identifier.
C26_NewBookmarks ==
    pc = "differentiated" =>
        LET new_bookmarks == metrics.obj.bookmarks.new_bookmarks
            added == metrics.obj.bookmarks.added.elems
        IN  /\ Len(new_bookmarks) = Cardinality(added)
            /\ {new_bookmarks[k].created : k \in 1..Len(new_bookmarks)} = added
            /\ \A k \in 1..Len(new_bookmarks) :
                   /\ new_bookmarks[k] \in BookmarksOf(result[1])
                   /\ k > 1 => new_bookmarks[k - 1].created
                                   < new_bookmarks[k].created

\* C26 witness: two new bookmarks, the later one found two folders below the
\* root and listed after the one of the root.
C26_Witness ==
    /\ pc = "differentiated"
    /\ Len(metrics.obj.bookmarks.new_bookmarks) = 2
    /\ metrics.obj.bookmarks.new_bookmarks[1].parent = << <<>> >>
    /\ metrics.obj.bookmarks.new_bookmarks[2].parent = << <<>>, <<"b">>, <<"c">> >>
    /\ metrics.obj.bookmarks.new_bookmarks[2].created = 1709251199

-----------------------------------------------------------------------------
(* Further properties of the parser *)

\* The loop of the open folder takes a <DD> line.
DdStep == pc = "folder" /\ queue # <<>> /\ Head(queue).kind = "DD"

OpenerMissing ==
    /\ pc = "folder"
    /\ Len(queue) >= 2
    /\ DtMatches(queue[1])
    /\ queue[1].markup.tag = "H3"
    /\ ~DlOpenMatches(queue[2])
    /\ Len(Top.parent) <= MAX_NESTING_DEPTH

\* C28: when process_dt fails because the line after an H3 declaration is
\* not a folder opener, the queue is as it was when process_dt was called,
\* that is without the declaration and with the line looked at back at its
\* front, and the content of the folder is unchanged.
C28_QueueRestored ==
    [][OpenerMissing =>
          /\ pc' = "failed"
          /\ error'.kind = "MalformedStructure"
          /\ queue' = Tail(queue)
          /\ stack' = stack]_vars

\* C28 witness: the parse has failed for a missing opener inside a folder
\* that already holds a bookmark, and the bookmark line that stood where the
\* opener should be is at the front of the queue, another line behind it.
C28_Witness ==
    /\ pc = "failed"
    /\ error.at = "process_dt:missing_dl"
    /\ Len(queue) = 2
    /\ Head(queue).kind = "DT"
    /\ Len(Top.folder.content) = 1

\* The <DT> lines among some lines.
NumDt(lines) == Cardinality({i \in 1..Len(lines) : lines[i].kind = "DT"})

\* What one step of the parse does to the queue and to the folders: it takes
\* lines from the front of the queue only; a bookmark declared by a <DT> line
\* goes to the end of the content of the folder open at that step; a folder
\* that closes goes to the end of the content of the folder it was declared
\* in; the end marker of the root ends the parse, the lines after it untouched.
OneNodeStep ==
    LET before == IF pc = "start" THEN data ELSE queue
    IN  /\ \E k \in 0..Len(before) :
               queue' = SubSeq(before, k + 1, Len(before))
        /\ (pc = "folder" /\ pc' = "folder" /\ Len(stack') = Len(stack)
                /\ queue # <<>> /\ Head(queue).kind = "DT") =>
               LET content == stack'[Len(stack')].folder.content
               IN  /\ content # <<>>
                   /\ content = Append(Top.folder.content,
                                       content[Len(content)])
                   /\ content[Len(content)].class = "Bookmark"
        /\ (pc = "folder" /\ pc' = "folder" /\ Len(stack') < Len(stack)) =>
               LET outer == Len(stack')
                   content == stack'[outer].folder.content
               IN  /\ outer = Len(stack) - 1
                   /\ content # <<>>
                   /\ content = Append(stack[outer].folder.content,
                                       content[Len(content)])
                   /\ content[Len(content)].class = "Folder"
                   /\ content[Len(content)].name = Top.folder.name
        /\ (pc = "folder" /\ Len(stack) = 1 /\ queue # <<>>
                /\ IsEndMarker(Head(queue), 0)) =>
               (pc' = "done" /\ queue' = Tail(queue))

\* C29: on a successful parse the tree holds as many bookmarks and folders
\* below the root as <DT> lines were taken from the queue, the lines left in
\* the queue giving none, and every step of the parse is a OneNodeStep: no
\* line is taken twice, every node goes to the folder open when its line was
\* read, and nothing after the end marker of the root is taken.
C29_OneNodePerDt ==
    /\ [](pc = "done" => NumBookmarks(result[1]) + NumFolders(result[1]) - 1 = NumDt(Consumed))
    /\ [][(pc \in {"start", "folder"}) => OneNodeStep]_vars

\* C29 witness: a tree of one folder below the root and nothing else, the
\* bookmark line after the end marker of the root still in the queue.
C29_Witness ==
    /\ pc = "done"
    /\ NumFolders(result[1]) = 2
    /\ NumBookmarks(result[1]) = 0
    /\ Len(queue) = 1
    /\ queue[1].kind = "DT"
    /\ NumDt(Consumed) = 1

RECURSIVE Occurrences(_, _)
\* How many times the bookmark is held by the items or by folders in them.
Occurrences(items, bookmark) ==
    IF items = <<>> THEN 0
    ELSE (IF Head(items).class = "Folder"
          THEN Occurrences(Head(items).content, bookmark)
          ELSE (IF Head(items) = bookmark THEN 1 ELSE 0))
         + Occurrences(Tail(items), bookmark)

\* C27: the list that all_bookmarks_sorted returns holds bookmarks only, each
\* bookmark of the tree as many times as the tree holds it at any depth and
\* nothing else, in non-decreasing order of created; the call returns for
\* every tree and leaves the tree as it was.
C27_AllBookmarksSorted ==
    /\ [](listed # None =>
            LET list == listed[1]
            IN  /\ \A i \in 1..Len(list) : list[i].class = "Bookmark"
                /\ \A i \in 1..Len(list) :
                       Cardinality({j \in 1..Len(list) : list[j] = list[i]})
                           = Occurrences(result[1].content, list[i])
                /\ \A b \in BookmarksOf(result[1]) :
                       \E i \in 1..Len(list) : list[i] = b
                /\ Len(list) = NumBookmarks(result[1])
                /\ \A i \in 1..Len(list) - 1 :
                       list[i].created <= list[i + 1].created)
    /\ [][(pc = "done" /\ result # None /\ listed = None) => (listed' # None /\ result' = result)]_vars

\* C27 witness: the list of a tree that holds a bookmark in a folder of a
\* folder and, before that folder, the same bookmark twice at the root.
C27_Witness ==
    /\ listed # None
    /\ Len(listed[1]) = 3
    /\ listed[1][1] = listed[1][2]
    /\ listed[1][3].parent = << <<>>, <<"b">>, <<"c">> >>
    /\ \E i \in 1..Len(result[1].content) :
           /\ result[1].content[i].class = "Bookmark"
           /\ i < Len(result[1].content)

\* C25: differentiate_metrics completes whatever identifiers bookmarks.added
\* holds: one that is the creation time of no bookmark of the tree, smaller
\* than, between or greater than the creation times in the tree, or any one
\* when the tree holds no bookmark, makes no call fail.
C25_LookupNeverFails == pc # "failed"

\* The line at i opens the folder that the line before it declares.
IsOpening(lines, i) ==
    /\ i >= 2
    /\ DlOpenMatches(lines[i])
    /\ DtMatches(lines[i - 1])
    /\ lines[i - 1].markup.tag = "H3"

\* The depth of the folder that is open after the first i lines of a body
\* whose end markers are those of the folders open: 0 in the root, -1 once
\* the root is closed.
DepthAfter(lines, i) ==
    Cardinality({j \in 1..i : IsOpening(lines, j)})
        - Cardinality({j \in 1..i : lines[j].kind = "DL_CLOSE"})

\* The lines of the document from the root opener to the end marker of the
\* root (all of them if the root is not closed).
RootLines(document) ==
    LET lines == SubSeq(document, HEADER_LINES + 2, Len(document))
        ends == {i \in 1..Len(lines) : DepthAfter(lines, i) < 0}
    IN  IF ends = {} THEN lines
        ELSE SubSeq(lines, 1, CHOOSE i \in ends : \A j \in ends : i <= j)

\* A document without a flaw: the header, the root opener, then bookmarks,
\* folders that are each opened and closed by their own end marker, notes
\* after a bookmark only, empty lines, and the end marker of the root.
WellFormed(document) ==
    /\ Len(document) >= HEADER_LINES + 1
    /\ IsRootDlTag(document[HEADER_LINES + 1])
    /\ LET lines == RootLines(document)
       IN  /\ DepthAfter(lines, Len(lines)) < 0
           /\ \A i \in 1..Len(lines) :
                  CASE lines[i].kind = "DL_CLOSE" ->
                           IsEndMarker(lines[i], DepthAfter(lines, i - 1))
                    [] lines[i].kind = "BLANK" -> TRUE
                    [] lines[i].kind = "DL_OPEN" -> IsOpening(lines, i)
                    [] lines[i].kind = "DT" ->
                           /\ DtMatches(lines[i])
                           /\ IF lines[i].markup.tag = "A"
                              THEN BookmarkFill(NewBookmark, lines[i].markup).ok
                              ELSE /\ FolderFill(NewFolder, lines[i].markup).ok
                                   /\ i < Len(lines)
                                   /\ IsOpening(lines, i + 1)
                    [] lines[i].kind = "DD" ->
                           /\ DdMatches(lines[i])
                           /\ \E j \in 1..(i - 1) :
                                  /\ DtMatches(lines[j])
                                  /\ lines[j].markup.tag = "A"
                                  /\ \A k \in (j + 1)..(i - 1) :
                                         lines[k].kind \in {"BLANK", "DD"}
                    [] OTHER -> FALSE

\* The depth of the deepest folder that the document declares and opens.
DeclaredDepth(document) ==
    LET lines == RootLines(document)
    IN  CHOOSE d \in 0..Len(lines) :
            /\ \E i \in 0..Len(lines) : DepthAfter(lines, i) = d
            /\ \A i \in 0..Len(lines) : DepthAfter(lines, i) <= d

\* C24: the guard on nesting trips only past MAX_NESTING_DEPTH: a document
\* without a flaw whose deepest folder has a depth of at most
\* MAX_NESTING_DEPTH is parsed to a tree whatever that folder holds, and a
\* document with a folder deeper than that fails with StructureTooDeep.
C24_GuardOnlyPastMaximum ==
    pc \in {"done", "failed"} =>
        /\ (WellFormed(data) /\ DeclaredDepth(data) <= MAX_NESTING_DEPTH) => pc = "done"
        /\ DeclaredDepth(data) > MAX_NESTING_DEPTH =>
               (pc = "failed" /\ error.kind = "StructureTooDeep")

\* C21: Node(), Folder() and Bookmark() give an object whose parent is the
\* empty sequence, next to name '', created 0 and updated 0; and each of the
\* three takes a parent among its keywords and keeps it in the object.
C21_ParentField ==
    pc = "constructed" =>
        /\ DOMAIN given.kwargs = {} =>
               /\ made.ok
               /\ made.obj.name = <<>>
               /\ made.obj.created = 0
               /\ made.obj.updated = 0
               /\ "parent" \in DOMAIN made.obj
               /\ made.obj.parent = <<>>
        /\ "parent" \in DOMAIN given.kwargs =>
               /\ made.ok
               /\ "parent" \in DOMAIN made.obj
               /\ made.obj.parent = given.kwargs.parent
====
